---- MODULE Spec2Model ----
(***************************************************************************)
(* A model of the dry indexing server: the similarity engine               *)
(* (similarity.ts), the embedding client (embedding.ts), the Valkey-backed *)
(* vector store (vector-db.ts) and the HTTP handlers (server.ts).          *)
(*                                                                         *)
(* Numbers.  The code computes on IEEE doubles.  Here a double is a        *)
(* fixed-point integer: the value x stands for x / Prec, every sqrt and    *)
(* every division rounds to the nearest representable value, and NaN is a  *)
(* value of its own that compares false with everything.  Embedding        *)
(* components are small integers (the test vector [0.9, 0.1] is <<9, 1>>   *)
(* beside <<10, 0>>; cosine similarity does not depend on the scale).      *)
(***************************************************************************)
EXTENDS Integers, Sequences, FiniteSets, TLC

VARIABLES
    \* the pure-function harness of cosineSimilarity: its two arguments, the
    \* value of cosineSimilarity(cosA, cosB) and of cosineSimilarity(cosB, cosA)
    cosA, cosB, cosRet, cosRev,
    \* Valkey: the hashes element:<id> (id -> fields, or None), the set
    \* elements:ids
    elements, elementsIds,
    \* the answer of the last similarity query (None before the first)
    simResp,
    \* one createEmbeddings call: its argument, and (None before the call) its
    \* queue, results array, workers and promise
    batchTexts, batch,
    \* Valkey: the strings embedding_cache:<fileHash>:<elementName>:<lineNumber>
    \* (key -> value, or None), and how often each key has expired
    cache, cacheEpoch,
    \* how many ids crypto.randomUUID() has handed out
    nextId,
    \* the HTTP requests received so far: each handler's position and locals,
    \* then its response
    requests,
    \* how many requests the clients have outstanding at a time
    maxActive,
    \* extractElements on its own: the content of the file, the include and
    \* the exclude regexes, and (None before the call) the elements it returned
    extContent, extRegexes, extracted,
    \* splitIntoChunks on its own: the text and the configured chunk size, and
    \* (None before the call) the chunks
    chunkIn, chunkOut,
    \* createEmbedding on its own: the provider's answers for the chunks of a
    \* text, and (None before the call) the embedding returned
    avgIn, avgOut,
    \* one run of the scan command (None before it starts)
    scan,
    \* one createEmbedding call and the provider's answers to it (None
    \* outside such a call)
    embed,
    \* the parsing of threshold and limit on its own: req.query of a GET
    \* request, and (None before the handler ran) what the handler applied
    reqQuery, applied

cosVars == <<cosA, cosB, cosRet, cosRev>>
storeVars == <<elements, elementsIds>>
simVars == <<simResp>>
batchVars == <<batchTexts, batch>>
cacheVars == <<cache, cacheEpoch>>
srvVars == <<nextId, requests, maxActive>>
pureVars == <<extContent, extRegexes, extracted, chunkIn, chunkOut, avgIn, avgOut>>
scanVars == <<scan>>
queryVars == <<reqQuery, applied>>
embedVars == <<embed>>
vars == <<pureVars, scanVars, queryVars, embedVars, cosVars, storeVars, simVars, batchVars, cacheVars, srvVars>>

(***************************************************************************)
(* Bounds of the model.                                                    *)
(***************************************************************************)
\* fixed-point resolution: a similarity s is the number s / Prec
Prec == 100
\* longest embedding vector
MaxDim == 2
\* largest embedding component
MaxComp == 10
\* number of ids crypto.randomUUID() can hand out (the ids are 1..MaxIds)
MaxIds == 3
\* largest limit a query is given
MaxLimit == 2
\* most texts handed to one createEmbeddings call
MaxBatch == 6
\* most HTTP requests the server receives
MaxRequests == 3

\* embedding.ts, line 75
concurrencyLimit == 5

None == <<>>
Some(x) == <<x>>

\* the not-a-number double: outside the range of every computed similarity
NaN == Prec * Prec

Components == {-1, 0, 1, MaxComp - 1, MaxComp}

RECURSIVE SeqsUpTo(_, _)
SeqsUpTo(S, n) ==
    IF n = 0 THEN {<<>>}
    ELSE LET shorter == SeqsUpTo(S, n - 1)
         IN  shorter \cup {Append(s, x) : s \in {t \in shorter : Len(t) = n - 1}, x \in S}

\* number[]: the embedding vectors the model draws from
Vectors == SeqsUpTo(Components, MaxDim)

(***************************************************************************)
(* similarity.ts: cosineSimilarity                                         *)
(***************************************************************************)
\* the loop of lines 168-172, one accumulator at a time
RECURSIVE SumProd(_, _, _)
SumProd(x, y, i) ==
    IF i = 0 THEN 0 ELSE SumProd(x, y, i - 1) + x[i] * y[i]

RECURSIVE SqrtSearch(_, _, _)
SqrtSearch(n, lo, hi) ==
    IF lo >= hi THEN lo
    ELSE LET mid == (lo + hi + 1) \div 2
         IN  IF mid * mid <= n THEN SqrtSearch(n, mid, hi)
             ELSE SqrtSearch(n, lo, mid - 1)

\* Math.sqrt of the integer n as a fixed-point value, rounded to nearest
MathSqrt(n) ==
    LET twice == SqrtSearch(4 * n * Prec * Prec, 0, 2 * Prec * (n + 1))
    IN  (twice + 1) \div 2

\* the double division num / den of a plain integer by a fixed-point product
\* (den in units of 1 / Prec^2), rounded to nearest; x / 0 is not a number
\* for x = 0 and infinite otherwise, neither of which the callers can order
FloatDiv(num, den) ==
    IF den = 0 THEN NaN
    ELSE (2 * num * Prec * Prec * Prec + den) \div (2 * den)

cosineSimilarityDenMutant(a, b) ==
    IF Len(a) # Len(b) THEN 0
    ELSE LET dotProduct == SumProd(a, b, Len(a))
             mA == MathSqrt(SumProd(a, a, Len(a)))
             mB == MathSqrt(SumProd(b, b, Len(a)))
         IN  IF mA = 0 \/ mB = 0 THEN 0 ELSE FloatDiv(dotProduct, mA * mA)

cosineSimilarityZeroMutant(a, b) ==
    IF Len(a) # Len(b) THEN 0
    ELSE LET dotProduct == SumProd(a, b, Len(a))
             mA == MathSqrt(SumProd(a, a, Len(a)))
             mB == MathSqrt(SumProd(b, b, Len(a)))
         IN  IF mA = 0 THEN 0 ELSE FloatDiv(dotProduct, mA * mB)

cosineSimilarity(a, b) ==
    IF Len(a) # Len(b) THEN 0
    ELSE LET dotProduct == SumProd(a, b, Len(a))
             mA == MathSqrt(SumProd(a, a, Len(a)))
             mB == MathSqrt(SumProd(b, b, Len(a)))
         IN  IF mA = 0 \/ mB = 0 THEN 0 ELSE FloatDiv(dotProduct, mA * mB)

\* x >= y on doubles: false when either side is not a number
FloatGe(x, y) == x # NaN /\ y # NaN /\ x >= y

\* x > y on doubles
FloatGt(x, y) == x # NaN /\ y # NaN /\ x > y

(***************************************************************************)
(* Values                                                                  *)
(***************************************************************************)
Ids == 1..MaxIds

\* JSON.stringify / JSON.parse: a stored field is a string, not the value
JsonStringify(x) == [json |-> x]
JsonParse(str) == str.json

\* ElementData (types.ts): the metadata the server reads, and the text
ElementData(fileHash, elementName, lineNumber, elementString) ==
    [metadata |-> [filePath |-> "a.ts", lineNumber |-> lineNumber,
                   elementName |-> elementName, fileHash |-> fileHash],
     elementString |-> elementString]

\* the request bodies of POST /elements: a one-chunk element and a two-chunk
\* element with a file hash, another text at the place of the first, an
\* element of blank lines without a file hash, an element without text
ElementBodies ==
    {ElementData("h1", "f", 1, "t1"), ElementData("h2", "g", 2, "tLong"),
     ElementData("h1", "f", 1, "t2"), ElementData("", "g", 3, "tBlank"),
     ElementData("h1", "f", 1, "")}

\* embedding_cache:${fileHash}:${elementName}:${lineNumber}
CacheKey(fileHash, elementName, lineNumber) == <<fileHash, elementName, lineNumber>>
KeyOf(elementData) ==
    CacheKey(elementData.metadata.fileHash, elementData.metadata.elementName,
             elementData.metadata.lineNumber)
CacheKeys == {KeyOf(e) : e \in {b \in ElementBodies : b.metadata.fileHash # ""}}

\* the fields of the hash element:<id> (vector-db.ts, hset)
HashFields(index) ==
    [data |-> JsonStringify(index.elementData),
     embedding |-> JsonStringify(index.embedding)]

\* the orders in which SMEMBERS can list a set
Orders(S) ==
    {o \in [1..Cardinality(S) -> S] : \A i, j \in 1..Cardinality(S) : i # j => o[i] # o[j]}

(***************************************************************************)
(* vector-db.ts: reads                                                     *)
(***************************************************************************)
\* a read that takes the empty hash of a deleted key for a record
getEmbeddingNoSkipMutant(db, id) ==
    IF db[id] = None THEN Some([id |-> id, elementData |-> None, embedding |-> <<>>])
    ELSE Some([id |-> id,
               elementData |-> JsonParse(db[id][1].data),
               embedding |-> JsonParse(db[id][1].embedding)])

\* getEmbedding: hgetall, null when the hash has no field
getEmbedding(db, id) ==
    IF db[id] = None THEN None
    ELSE Some([id |-> id,
               elementData |-> JsonParse(db[id][1].data),
               embedding |-> JsonParse(db[id][1].embedding)])

\* getAllEmbeddings, lines 75-87: ids as SMEMBERS listed them, results as the
\* pipeline of hgetall answered; an id whose hash is empty is skipped
RECURSIVE getAllEmbeddingsLoop(_, _, _)
getAllEmbeddingsLoop(ids, db, i) ==
    IF i > Len(ids) THEN <<>>
    ELSE getEmbedding(db, ids[i]) \o getAllEmbeddingsLoop(ids, db, i + 1)

getAllEmbeddings(ids, db) == getAllEmbeddingsLoop(ids, db, 1)

(***************************************************************************)
(* similarity.ts: SimilarityService                                        *)
(***************************************************************************)
\* Array.prototype.filter is SelectSeq of the Sequences module.

\* Array.prototype.sort((a, b) => b.similarity - a.similarity): the sort is
\* stable, so x goes behind every element it does not strictly exceed
RECURSIVE InsertDesc(_, _)
InsertDesc(sorted, x) ==
    IF sorted = <<>> THEN <<x>>
    ELSE IF FloatGt(x.similarity, Head(sorted).similarity) THEN <<x>> \o sorted
    ELSE <<Head(sorted)>> \o InsertDesc(Tail(sorted), x)

RECURSIVE InsertAsc(_, _)
InsertAsc(sorted, x) ==
    IF sorted = <<>> THEN <<x>>
    ELSE IF FloatGt(Head(sorted).similarity, x.similarity) THEN <<x>> \o sorted
    ELSE <<Head(sorted)>> \o InsertAsc(Tail(sorted), x)

RECURSIVE SortAscMutant(_)
SortAscMutant(s) ==
    IF s = <<>> THEN <<>>
    ELSE InsertAsc(SortAscMutant(SubSeq(s, 1, Len(s) - 1)), s[Len(s)])

RECURSIVE SortBySimilarity(_)
SortBySimilarity(s) ==
    IF s = <<>> THEN <<>>
    ELSE InsertDesc(SortBySimilarity(SubSeq(s, 1, Len(s) - 1)), s[Len(s)])

\* a slice that keeps one element too many
Slice0OffByOneMutant(s, end) == SubSeq(s, 1, IF end + 1 > Len(s) THEN Len(s) ELSE end + 1)

\* Array.prototype.slice(0, end): a negative end counts from the back
Slice0(s, end) ==
    LET stop == IF end < 0 THEN (IF Len(s) + end < 0 THEN 0 ELSE Len(s) + end)
                ELSE IF end > Len(s) THEN Len(s) ELSE end
    IN  SubSeq(s, 1, stop)

\* a map that forgets to leave the target out
ScoreAllMutant(target, allIndices, id) ==
    [k \in 1..Len(allIndices) |->
        [id |-> allIndices[k].id,
         elementData |-> allIndices[k].elementData,
         similarity |-> cosineSimilarity(target.embedding, allIndices[k].embedding)]]

\* lines 201-207 of findSimilar; `id` in an entry is the stored record it was
\* computed from, kept beside the element data for the properties
ScoreOthers(target, allIndices, id) ==
    LET others == SelectSeq(allIndices, LAMBDA item : item.id # id)
    IN  [k \in 1..Len(others) |->
            [id |-> others[k].id,
             elementData |-> others[k].elementData,
             similarity |-> cosineSimilarity(target.embedding, others[k].embedding)]]

\* findSimilar past the lookup of the target (lines 198-212); the similarity
\* is dropped by the last map
findSimilarFrom(target, allIndices, id, threshold, limit) ==
    LET kept == SelectSeq(ScoreOthers(target, allIndices, id),
                       LAMBDA item : FloatGe(item.similarity, threshold))
        top == Slice0(SortBySimilarity(kept), limit)
    IN  [k \in 1..Len(top) |-> [id |-> top[k].id, elementData |-> top[k].elementData]]

\* the nested loops of findMostSimilarPairs (lines 239-250), in push order
RECURSIVE PairLoop(_, _, _, _)
PairLoop(allIndices, threshold, i, j) ==
    IF i > Len(allIndices) THEN <<>>
    ELSE IF j > Len(allIndices) THEN PairLoop(allIndices, threshold, i + 1, i + 2)
    ELSE LET similarity == cosineSimilarity(allIndices[i].embedding, allIndices[j].embedding)
         IN  (IF FloatGe(similarity, threshold)
              THEN <<[id1 |-> allIndices[i].id, id2 |-> allIndices[j].id,
                      element1 |-> allIndices[i].elementData,
                      element2 |-> allIndices[j].elementData,
                      similarity |-> similarity]>>
              ELSE <<>>)
             \o PairLoop(allIndices, threshold, i, j + 1)

\* a loop whose inner index starts at 0 instead of i + 1
RECURSIVE PairLoopAllMutant(_, _, _, _)
PairLoopAllMutant(allIndices, threshold, i, j) ==
    IF i > Len(allIndices) THEN <<>>
    ELSE IF j > Len(allIndices) THEN PairLoopAllMutant(allIndices, threshold, i + 1, 1)
    ELSE LET similarity == cosineSimilarity(allIndices[i].embedding, allIndices[j].embedding)
         IN  (IF FloatGe(similarity, threshold)
              THEN <<[id1 |-> allIndices[i].id, id2 |-> allIndices[j].id,
                      element1 |-> allIndices[i].elementData,
                      element2 |-> allIndices[j].elementData,
                      similarity |-> similarity]>>
              ELSE <<>>)
             \o PairLoopAllMutant(allIndices, threshold, i, j + 1)

ComparePairsAllMutant(allIndices, threshold) == PairLoopAllMutant(allIndices, threshold, 1, 1)

ComparePairs(allIndices, threshold) == PairLoop(allIndices, threshold, 1, 2)

findMostSimilarPairs(allIndices, threshold, limit) ==
    IF Len(allIndices) < 2 THEN <<>>
    ELSE Slice0(SortBySimilarity(ComparePairs(allIndices, threshold)), limit)

searchByVector(allIndices, queryEmbedding, threshold, limit) ==
    LET scored == [k \in 1..Len(allIndices) |->
                      [id |-> allIndices[k].id,
                       element |-> allIndices[k].elementData,
                       similarity |-> cosineSimilarity(queryEmbedding, allIndices[k].embedding)]]
        kept == SelectSeq(scored, LAMBDA item : FloatGe(item.similarity, threshold))
    IN  Slice0(SortBySimilarity(kept), limit)

(***************************************************************************)
(* Texts.  A string is a sequence of characters.  The state holds a text   *)
(* by name; Content gives its characters.                                  *)
(***************************************************************************)
Rep(c, n) == [i \in 1..n |-> c]

\* the element strings and queries of the model: two one-character texts, a
\* text of two 60-character lines, a text of two lines of 60 blanks, the
\* empty text
TextNames == {"", "t1", "t2", "tLong", "tBlank"}

Content(t) ==
    CASE t = "" -> <<>>
      [] t = "t1" -> <<"a">>
      [] t = "t2" -> <<"b">>
      [] t = "tLong" -> Rep("a", 60) \o <<"\n">> \o Rep("b", 60)
      [] t = "tBlank" -> Rep(" ", 60) \o <<"\n">> \o Rep(" ", 60)

\* Config (types.ts) as index.ts fills it
Config == [embeddingApiUrl |-> "http://embeddinggemma:8080/v1/embeddings",
           embeddingChunkSize |-> 100]

(***************************************************************************)
(* embedding.ts: splitIntoChunks                                           *)
(***************************************************************************)
IsSpace(c) == c \in {" ", "\n", "\t", "\r"}

\* String.prototype.trim: from the first to the last character that is not
\* white space
Trim(str) ==
    LET kept == {i \in 1..Len(str) : ~IsSpace(str[i])}
    IN  IF kept = {} THEN <<>>
        ELSE SubSeq(str, CHOOSE i \in kept : \A j \in kept : i <= j,
                         CHOOSE i \in kept : \A j \in kept : i >= j)

\* the k-th smallest member of a set of numbers
KthSmallest(S, k) == CHOOSE x \in S : Cardinality({y \in S : y < x}) = k - 1

\* String.prototype.split('\n'): the k-th line lies between the (k-1)-th and
\* the k-th line break
SplitLines(str) ==
    LET breaks == {i \in 1..Len(str) : str[i] = "\n"}
    IN  [k \in 1..(Cardinality(breaks) + 1) |->
            SubSeq(str, KthSmallest(breaks \cup {0}, k) + 1,
                        KthSmallest(breaks \cup {Len(str) + 1}, k) - 1)]

\* line 96 for a configuration whose embeddingChunkSize is size (0 stands
\* for the falsy values 0 and NaN)
ChunkLimitOf(size) ==
    LET configured == IF size = 0 THEN 1000 ELSE size
    IN  IF configured > 100 THEN configured ELSE 100

\* line 96
ChunkLimit == ChunkLimitOf(Config.embeddingChunkSize)

\* a loop that leaves a line longer than the limit whole
ForceSplitNoneMutant(chunks, remainingLine, limit) == <<chunks, remainingLine>>

\* a loop that pushes the first piece of a line longer than the limit and
\* drops the rest of the line
ForceSplitDropRestMutant(chunks, remainingLine, limit) ==
    <<Append(chunks, SubSeq(remainingLine, 1, limit)), <<>>>>

\* lines 115-120: the forced split of a line longer than the limit; the
\* result is <<chunks, remainingLine>>
RECURSIVE ForceSplit(_, _, _)
ForceSplit(chunks, remainingLine, limit) ==
    IF Len(remainingLine) > limit
    THEN ForceSplit(Append(chunks, SubSeq(remainingLine, 1, limit)),
                    SubSeq(remainingLine, limit + 1, Len(remainingLine)), limit)
    ELSE <<chunks, remainingLine>>

\* the loop of lines 105-132 from line i on, then lines 134-138
RECURSIVE ChunkLoop(_, _, _, _, _)
ChunkLoop(lines, i, chunks, currentChunk, limit) ==
    IF i > Len(lines)
    THEN LET all == IF Trim(currentChunk) # <<>>
                    THEN Append(chunks, Trim(currentChunk)) ELSE chunks
         IN  SelectSeq(all, LAMBDA c : Len(c) > 0)
    ELSE LET line == lines[i] \o (IF i < Len(lines) THEN <<"\n">> ELSE <<>>)
             flushed == IF currentChunk # <<>>
                        THEN Append(chunks, Trim(currentChunk)) ELSE chunks
         IN  IF Len(line) > limit
             THEN LET split == ForceSplit(flushed, line, limit)
                  IN  ChunkLoop(lines, i + 1, split[1], split[2], limit)
             ELSE IF Len(currentChunk) + Len(line) > limit
             THEN ChunkLoop(lines, i + 1, flushed, line, limit)
             ELSE ChunkLoop(lines, i + 1, chunks, currentChunk \o line, limit)

\* splitIntoChunks under a configuration whose embeddingChunkSize is size
splitIntoChunksAt(text, size) ==
    IF Len(text) <= ChunkLimitOf(size) THEN <<text>>
    ELSE ChunkLoop(SplitLines(text), 1, <<>>, <<>>, ChunkLimitOf(size))

splitIntoChunks(text) == splitIntoChunksAt(text, Config.embeddingChunkSize)

\* the chunks of every text of the model, computed once
ChunkTable == [t \in TextNames |-> splitIntoChunks(Content(t))]

(***************************************************************************)
(* embedding.ts: createEmbedding, averageEmbeddings                        *)
(***************************************************************************)
\* the embedding provider's answer data.data[0].embedding for one input: a
\* function of the input, different for the chunks of the model's texts; the
\* components are multiples of 6, so that means of 2 or 3 vectors are exact
ProviderEmbedding(chunk) ==
    IF chunk = <<>> THEN <<0, 0>>
    ELSE <<6 * (CASE chunk[1] = "a" -> 1 [] chunk[1] = "b" -> 2 [] OTHER -> 0),
           6 * (Len(chunk) % 3)>>

RECURSIVE SumAt(_, _, _)
SumAt(embeddings, i, k) ==
    IF k = 0 THEN 0 ELSE SumAt(embeddings, i, k - 1) + embeddings[k][i]

\* averaged[i] /= embeddings.length, rounded to the nearest value
AvgDiv(sum, n) == (2 * sum + n) \div (2 * n)

\* an average that leaves out the division by embeddings.length
averageEmbeddingsSumMutant(embeddings) ==
    IF Len(embeddings) = 0 THEN <<>>
    ELSE [i \in 1..Len(embeddings[1]) |-> SumAt(embeddings, i, Len(embeddings))]

averageEmbeddings(embeddings) ==
    IF Len(embeddings) = 0 THEN <<>>
    ELSE [i \in 1..Len(embeddings[1]) |->
            AvgDiv(SumAt(embeddings, i, Len(embeddings)), Len(embeddings))]

\* lines 57-61: the value createEmbedding returns from the chunk embeddings
EmbeddingFrom(embeddings) ==
    IF Len(embeddings) = 1 THEN embeddings[1] ELSE averageEmbeddings(embeddings)

\* createEmbedding when every request succeeds
createEmbedding(text) ==
    LET chunks == ChunkTable[text]
    IN  EmbeddingFrom([k \in 1..Len(chunks) |-> ProviderEmbedding(chunks[k])])

(***************************************************************************)
(* embedding.ts: createEmbeddings.  A pool is the state of one call: the   *)
(* queue, the results array (None is a hole), the workers and the state of *)
(* the promise the call returned.  A worker awaits the provider's answer   *)
(* to the request for the first of its chunks ("await"), awaits a          *)
(* createEmbedding that made no request ("resume"), has left its loop      *)
(* ("done") or has thrown ("failed").  Code between two awaits runs as one *)
(* step.  `completed` is a history of the call: the indices in the order   *)
(* in which their embeddings arrived.                                      *)
(***************************************************************************)
IdleWorker == [pc |-> "done", index |-> 0, chunks |-> <<>>, embeddings |-> <<>>]

\* lines 80-83 up to the first await inside createEmbedding(item.text)
WorkerTake(pool, w) ==
    IF pool.queue = <<>>
    THEN [pool EXCEPT !.workers[w] = IdleWorker]
    ELSE LET item == Head(pool.queue)
             chunks == ChunkTable[item.text]
         IN  [pool EXCEPT
                !.queue = Tail(pool.queue),
                !.workers[w] =
                    [pc |-> IF Config.embeddingApiUrl = "" THEN "failed"
                            ELSE IF chunks = <<>> THEN "resume" ELSE "await",
                     index |-> item.index, chunks |-> chunks, embeddings |-> <<>>]]

\* a call that returns as soon as one worker has returned
SettleFirstDoneMutant(pool) ==
    IF pool.settled # "pending" THEN pool
    ELSE IF \E w \in 1..Len(pool.workers) : pool.workers[w].pc = "failed"
    THEN [pool EXCEPT !.settled = "rejected"]
    ELSE IF \E w \in 1..Len(pool.workers) : pool.workers[w].pc = "done"
    THEN [pool EXCEPT !.settled = "resolved"]
    ELSE pool

\* a call that waits for every worker and returns whatever they stored
SettleAllSettledMutant(pool) ==
    IF pool.settled # "pending" THEN pool
    ELSE IF \A w \in 1..Len(pool.workers) : pool.workers[w].pc \in {"done", "failed"}
    THEN [pool EXCEPT !.settled = "resolved"]
    ELSE pool

\* Promise.all(workers): rejected by the first worker that throws, resolved
\* when every worker has returned
Settle(pool) ==
    IF pool.settled # "pending" THEN pool
    ELSE IF \E w \in 1..Len(pool.workers) : pool.workers[w].pc = "failed"
    THEN [pool EXCEPT !.settled = "rejected"]
    ELSE IF \A w \in 1..Len(pool.workers) : pool.workers[w].pc = "done"
    THEN [pool EXCEPT !.settled = "resolved"]
    ELSE pool

RECURSIVE StartWorkers(_, _)
StartWorkers(pool, w) ==
    IF w > Len(pool.workers) THEN pool
    ELSE StartWorkers(WorkerTake(pool, w), w + 1)

\* a call that starts one worker for every text
PoolStartUnlimitedMutant(texts) ==
    IF Config.embeddingApiUrl = ""
    THEN [queue |-> <<>>, results |-> <<>>, workers |-> <<>>, settled |-> "rejected",
          completed |-> <<>>]
    ELSE Settle(StartWorkers(
            [queue |-> [i \in 1..Len(texts) |-> [text |-> texts[i], index |-> i]],
             results |-> [i \in 1..Len(texts) |-> None],
             workers |-> [w \in 1..Len(texts) |-> IdleWorker],
             settled |-> "pending", completed |-> <<>>], 1))

\* createEmbeddings(texts) up to its await: the workers start in turn, each
\* running to its first await
PoolStart(texts) ==
    IF Config.embeddingApiUrl = ""
    THEN [queue |-> <<>>, results |-> <<>>, workers |-> <<>>, settled |-> "rejected",
          completed |-> <<>>]
    ELSE LET n == IF concurrencyLimit < Len(texts) THEN concurrencyLimit ELSE Len(texts)
         IN  Settle(StartWorkers(
                [queue |-> [i \in 1..Len(texts) |-> [text |-> texts[i], index |-> i]],
                 results |-> [i \in 1..Len(texts) |-> None],
                 workers |-> [w \in 1..n |-> IdleWorker],
                 settled |-> "pending", completed |-> <<>>], 1))

\* a worker that appends to the results in the order of completion
ResultSlotPushMutant(pool, w) ==
    Cardinality({i \in 1..Len(pool.results) : pool.results[i] # None}) + 1

\* results[item.index] = ...
ResultSlot(pool, w) == pool.workers[w].index

\* line 83 after the await, and the next turn of the loop
WorkerStore(pool, w, embedding) ==
    Settle(WorkerTake([pool EXCEPT !.results[ResultSlot(pool, w)] = Some(embedding),
                                   !.completed = Append(pool.completed, pool.workers[w].index)],
                      w))

\* the provider answers worker w's request: a good answer is pushed (line 51)
\* and the next chunk is requested, or the embedding is returned; any other
\* answer, or the timeout, makes createEmbedding throw
PoolRespond(pool, w, ok) ==
    LET me == pool.workers[w]
        embeddings == Append(me.embeddings, ProviderEmbedding(Head(me.chunks)))
    IN  IF ~ok
        THEN Settle([pool EXCEPT !.workers[w].pc = "failed"])
        ELSE IF Len(me.chunks) > 1
        THEN [pool EXCEPT !.workers[w].chunks = Tail(me.chunks),
                          !.workers[w].embeddings = embeddings]
        ELSE WorkerStore(pool, w, EmbeddingFrom(embeddings))

\* a createEmbedding that had no chunk to send returns averageEmbeddings([])
PoolResume(pool, w) == WorkerStore(pool, w, EmbeddingFrom(<<>>))

\* the requests in flight
InFlight(pool) == {w \in 1..Len(pool.workers) : pool.workers[w].pc = "await"}

(***************************************************************************)
(* The specification of cosineSimilarity as a pure function: the arguments *)
(* are drawn from Vectors, the two actions call it both ways round.        *)
(***************************************************************************)
BatchUnused ==
    /\ batchTexts = <<>>
    /\ batch = None

PureUnused ==
    /\ extContent = <<>>
    /\ extRegexes = None
    /\ extracted = None
    /\ chunkIn = None
    /\ chunkOut = None
    /\ avgIn = <<>>
    /\ avgOut = None

ScanUnused == scan = None

EmbedUnused == embed = None

QueryUnused ==
    /\ reqQuery = None
    /\ applied = None

\* a server that has received no request, on a Valkey without cache entries
ServerIdle ==
    /\ cache = [k \in CacheKeys |-> None]
    /\ cacheEpoch = [k \in CacheKeys |-> 0]
    /\ nextId = 0
    /\ requests = <<>>
    /\ maxActive = 1

CosInit ==
    /\ EmbedUnused
    /\ PureUnused
    /\ ScanUnused
    /\ QueryUnused
    /\ cosA \in Vectors
    /\ cosB \in Vectors
    /\ cosRet = None
    /\ cosRev = None
    /\ elements = [id \in Ids |-> None]
    /\ elementsIds = {}
    /\ simResp = None
    /\ BatchUnused
    /\ ServerIdle

CallCosine ==
    /\ cosRet = None
    /\ cosRet' = Some(cosineSimilarity(cosA, cosB))
    /\ UNCHANGED <<embedVars, pureVars, scanVars, queryVars, cosA, cosB, cosRev, storeVars, simVars, batchVars, cacheVars, srvVars>>

CallCosineSwapped ==
    /\ cosRev = None
    /\ cosRev' = Some(cosineSimilarity(cosB, cosA))
    /\ UNCHANGED <<embedVars, pureVars, scanVars, queryVars, cosA, cosB, cosRet, storeVars, simVars, batchVars, cacheVars, srvVars>>

CosNext == CallCosine \/ CallCosineSwapped

SpecCosine == CosInit /\ [][CosNext]_vars

\* a vector of zero magnitude: every component is zero (the empty vector too)
IsZeroVector(v) == \A i \in 1..Len(v) : v[i] = 0

\* C5: cosineSimilarity returns exactly 0, never NaN, when the two vectors
\* differ in length or either has zero magnitude
C5_ZeroOnMismatchOrZero ==
    \A r \in {<<cosA, cosB, cosRet>>, <<cosB, cosA, cosRev>>} :
        (r[3] # None /\ (Len(r[1]) # Len(r[2]) \/ IsZeroVector(r[1]) \/ IsZeroVector(r[2])))
            => r[3] = Some(0)

C5_Witness ==
    /\ cosRet = Some(0)
    /\ Len(cosA) = Len(cosB)
    /\ Len(cosA) > 0
    /\ ~IsZeroVector(cosA)
    /\ IsZeroVector(cosB)

\* C6: cosineSimilarity(a, b) = cosineSimilarity(b, a) for all vectors
C6_Symmetric ==
    (cosRet # None /\ cosRev # None) => cosRet = cosRev

C6_Witness ==
    /\ cosRet # None
    /\ cosRev # None
    /\ cosA # cosB
    /\ Len(cosA) = Len(cosB)
    /\ cosRet[1] # 0
    /\ cosRet[1] # NaN

(***************************************************************************)
(* The specification of the similarity service over a quiescent store:     *)
(* Init draws the stored records, each action is one query.                *)
(***************************************************************************)
\* the embeddings of the stored records: the vectors of the service's test
\* ([1, 0], [0.9, 0.1], [0, 1]) and the zero vector
EmbeddingPool ==
    {<<MaxComp, 0>>, <<MaxComp - 1, 1>>, <<0, MaxComp>>, <<0, 0>>}

\* the query vectors of searchByVector: one of another dimension among them
QueryPool == {<<MaxComp, 0>>, <<1, 1>>, <<MaxComp>>}

\* thresholds 0, 0.8 and 1
Thresholds == {0, (8 * Prec) \div 10, Prec}

Limits == {-1, 0, 1, MaxLimit}

\* the element stored under an id: ids 1 and 2 hold the same element
SampleElement(id) ==
    ElementData("", IF id <= 2 THEN "f" ELSE "g", (id + 1) \div 2, "t1")

CosUnused ==
    /\ cosA = <<>>
    /\ cosB = <<>>
    /\ cosRet = None
    /\ cosRev = None

SimInit ==
    /\ EmbedUnused
    /\ PureUnused
    /\ ScanUnused
    /\ QueryUnused
    /\ CosUnused
    /\ elementsIds \in SUBSET Ids
    /\ \E emb \in [elementsIds -> EmbeddingPool] :
        elements = [id \in Ids |->
            IF id \in elementsIds
            THEN Some(HashFields([id |-> id, elementData |-> SampleElement(id),
                                  embedding |-> emb[id]]))
            ELSE None]
    /\ simResp = None
    /\ BatchUnused
    /\ ServerIdle

\* findSimilar(id, threshold, limit): the lookup of the target (lines 193-196)
\* and the query over all records
FindSimilar ==
    /\ simResp = None
    /\ \E id \in Ids, threshold \in Thresholds, limit \in Limits, ids \in Orders(elementsIds) :
        LET target == getEmbedding(elements, id)
            allIndices == getAllEmbeddings(ids, elements)
        IN  simResp' =
                Some(IF target = None
                     THEN [op |-> "findSimilar", id |-> id, threshold |-> threshold,
                           limit |-> limit, status |-> "not found", result |-> <<>>]
                     ELSE [op |-> "findSimilar", id |-> id, threshold |-> threshold,
                           limit |-> limit, status |-> "ok",
                           result |-> findSimilarFrom(target[1], allIndices, id, threshold, limit)])
    /\ UNCHANGED <<embedVars, pureVars, scanVars, queryVars, cosVars, storeVars, batchVars, cacheVars, srvVars>>

FindMostSimilarPairs ==
    /\ simResp = None
    /\ \E threshold \in Thresholds, limit \in Limits, ids \in Orders(elementsIds) :
        simResp' =
            Some([op |-> "findMostSimilarPairs", threshold |-> threshold,
                  limit |-> limit, status |-> "ok",
                  result |-> findMostSimilarPairs(getAllEmbeddings(ids, elements),
                                                  threshold, limit)])
    /\ UNCHANGED <<embedVars, pureVars, scanVars, queryVars, cosVars, storeVars, batchVars, cacheVars, srvVars>>

SearchByVector ==
    /\ simResp = None
    /\ \E q \in QueryPool, threshold \in Thresholds, limit \in Limits, ids \in Orders(elementsIds) :
        simResp' =
            Some([op |-> "searchByVector", query |-> q,
                  threshold |-> threshold, limit |-> limit, status |-> "ok",
                  result |-> searchByVector(getAllEmbeddings(ids, elements),
                                            q, threshold, limit)])
    /\ UNCHANGED <<embedVars, pureVars, scanVars, queryVars, cosVars, storeVars, batchVars, cacheVars, srvVars>>

SimNext == FindSimilar \/ FindMostSimilarPairs \/ SearchByVector

SpecSim == SimInit /\ [][SimNext]_vars

\* the stored records: the tracked ids whose hash exists, and their vectors
StoredIds == {id \in elementsIds : elements[id] # None}
EmbeddingOf(id) == JsonParse(elements[id][1].embedding)
DataOf(id) == JsonParse(elements[id][1].data)

IsResp(op) == simResp # None /\ simResp[1].op = op /\ simResp[1].status = "ok"

\* C1: findMostSimilarPairs returns no pair of a record with itself, and
\* never both (a, b) and (b, a)
C1_NoSelfNoMirrorPair ==
    IsResp("findMostSimilarPairs") =>
        LET res == simResp[1].result
        IN  \A k, l \in 1..Len(res) :
                /\ res[k].id1 # res[k].id2
                /\ ~(res[k].id1 = res[l].id2 /\ res[k].id2 = res[l].id1)

C1_Witness ==
    /\ IsResp("findMostSimilarPairs")
    /\ Len(simResp[1].result) >= 2
    /\ \E x, y \in StoredIds : x # y /\ EmbeddingOf(x) = EmbeddingOf(y)

\* C2: findSimilar never returns the target record itself, and fails with
\* "not found", returning nothing, when no record has the target id
C2_NoSelfAndNotFound ==
    (simResp # None /\ simResp[1].op = "findSimilar") =>
        LET r == simResp[1]
        IN  /\ elements[r.id] = None => (r.status = "not found" /\ r.result = <<>>)
            /\ elements[r.id] # None => r.status = "ok"
            /\ \A k \in 1..Len(r.result) : r.result[k].id # r.id

C2_Witness ==
    /\ IsResp("findSimilar")
    /\ simResp[1].result # <<>>
    /\ simResp[1].limit > Len(simResp[1].result)
    /\ FloatGe(cosineSimilarity(EmbeddingOf(simResp[1].id), EmbeddingOf(simResp[1].id)),
               simResp[1].threshold)

\* the unordered pairs of stored records whose similarity reaches t
QualifyingPairs(t) ==
    {p \in SUBSET StoredIds :
        /\ Cardinality(p) = 2
        /\ \E x, y \in p : x # y /\ FloatGe(cosineSimilarity(EmbeddingOf(x), EmbeddingOf(y)), t)}

PairSimilarity(p) ==
    LET x == CHOOSE x \in p : TRUE
        y == CHOOSE y \in p : y # x
    IN  cosineSimilarity(EmbeddingOf(x), EmbeddingOf(y))

Min(x, y) == IF x < y THEN x ELSE y

\* C3: for a limit >= 0, findMostSimilarPairs returns pairs of stored records
\* with similarity >= threshold, each at most once, in non-increasing order of
\* similarity; it returns min(limit, number of qualifying pairs) of them, and
\* none it leaves out is more similar than one it returns (so all of them
\* when at most limit qualify)
C3_PairsExactSortedTruncated ==
    (IsResp("findMostSimilarPairs") /\ simResp[1].limit >= 0) =>
        LET r == simResp[1]
            res == r.result
            Q == QualifyingPairs(r.threshold)
            Got == {{res[k].id1, res[k].id2} : k \in 1..Len(res)}
        IN  /\ Got \subseteq Q
            /\ Cardinality(Got) = Len(res)
            /\ Len(res) = Min(r.limit, Cardinality(Q))
            /\ \A k \in 1..Len(res) :
                /\ res[k].similarity = PairSimilarity({res[k].id1, res[k].id2})
                /\ res[k].element1 = DataOf(res[k].id1)
                /\ res[k].element2 = DataOf(res[k].id2)
                /\ k < Len(res) => res[k].similarity >= res[k + 1].similarity
            /\ \A p \in Q \ Got : \A k \in 1..Len(res) : res[k].similarity >= PairSimilarity(p)

\* the service's test: A = [1, 0], B = [0.9, 0.1], C = [0, 1], threshold 0.8
C3_Witness ==
    /\ IsResp("findMostSimilarPairs")
    /\ simResp[1].threshold = (8 * Prec) \div 10
    /\ simResp[1].limit = MaxLimit
    /\ \E x, y, z \in StoredIds :
        /\ StoredIds = {x, y, z}
        /\ EmbeddingOf(x) = <<MaxComp, 0>>
        /\ EmbeddingOf(y) = <<MaxComp - 1, 1>>
        /\ EmbeddingOf(z) = <<0, MaxComp>>
        /\ Len(simResp[1].result) = 1
        /\ {simResp[1].result[1].id1, simResp[1].result[1].id2} = {x, y}
        /\ simResp[1].result[1].similarity > simResp[1].threshold

\* the similarity of stored record id to the reference vector of the query:
\* the target's embedding for findSimilar, the query vector for searchByVector
RefVector(r) == IF r.op = "findSimilar" THEN EmbeddingOf(r.id) ELSE r.query
Candidates(r) == IF r.op = "findSimilar" THEN StoredIds \ {r.id} ELSE StoredIds

\* C4: for a limit >= 0, every result of findSimilar and searchByVector has
\* similarity >= threshold, the results are in non-increasing order of
\* similarity, at most limit of them, and no other stored record left out is
\* strictly more similar than a returned one
C4_ThresholdOrderLimit ==
    ((IsResp("findSimilar") \/ IsResp("searchByVector")) /\ simResp[1].limit >= 0) =>
        LET r == simResp[1]
            res == r.result
            SimOf(id) == cosineSimilarity(RefVector(r), EmbeddingOf(id))
            Got == {res[k].id : k \in 1..Len(res)}
        IN  /\ Got \subseteq Candidates(r)
            /\ Len(res) <= r.limit
            /\ \A k \in 1..Len(res) :
                /\ FloatGe(SimOf(res[k].id), r.threshold)
                /\ r.op = "searchByVector" => res[k].similarity = SimOf(res[k].id)
                /\ k < Len(res) => SimOf(res[k].id) >= SimOf(res[k + 1].id)
            /\ \A id \in Candidates(r) \ Got :
                \A k \in 1..Len(res) : SimOf(id) <= SimOf(res[k].id)

C4_Witness ==
    /\ IsResp("findSimilar")
    /\ simResp[1].limit = 1
    /\ Len(simResp[1].result) = 1
    /\ \E id \in StoredIds \ {simResp[1].id, simResp[1].result[1].id} :
        /\ FloatGe(cosineSimilarity(EmbeddingOf(simResp[1].id), EmbeddingOf(id)),
                   simResp[1].threshold)
        /\ cosineSimilarity(EmbeddingOf(simResp[1].id), EmbeddingOf(id))
             < cosineSimilarity(EmbeddingOf(simResp[1].id),
                                EmbeddingOf(simResp[1].result[1].id))

(***************************************************************************)
(* The specification of one createEmbeddings call: Init draws the texts,   *)
(* the provider answers the requests in flight in any order.               *)
(***************************************************************************)
Cycle(base, n) == [i \in 1..n |-> base[((i - 1) % Len(base)) + 1]]

\* the arguments of the call: up to MaxBatch texts, of one, two and no chunk
BatchInputs ==
    {Cycle(base, n) : base \in {<<"t1", "t2", "tLong">>, <<"tLong", "tBlank", "t2", "t1">>},
                      n \in 0..MaxBatch}

StoreUnused ==
    /\ elements = [id \in Ids |-> None]
    /\ elementsIds = {}

BatchInit ==
    /\ EmbedUnused
    /\ PureUnused
    /\ ScanUnused
    /\ QueryUnused
    /\ CosUnused
    /\ StoreUnused
    /\ simResp = None
    /\ batchTexts \in BatchInputs
    /\ batch = None
    /\ ServerIdle

\* createEmbeddings(texts) is called
BatchCall ==
    /\ batch = None
    /\ batch' = Some(PoolStart(batchTexts))
    /\ UNCHANGED <<embedVars, pureVars, scanVars, queryVars, cosVars, storeVars, simVars, batchTexts, cacheVars, srvVars>>

\* the provider answers one request in flight
BatchRespond ==
    /\ batch # None
    /\ \E w \in InFlight(batch[1]), ok \in BOOLEAN :
        batch' = Some(PoolRespond(batch[1], w, ok))
    /\ UNCHANGED <<embedVars, pureVars, scanVars, queryVars, cosVars, storeVars, simVars, batchTexts, cacheVars, srvVars>>

\* a worker whose createEmbedding made no request goes on
BatchResume ==
    /\ batch # None
    /\ \E w \in {v \in 1..Len(batch[1].workers) : batch[1].workers[v].pc = "resume"} :
        batch' = Some(PoolResume(batch[1], w))
    /\ UNCHANGED <<embedVars, pureVars, scanVars, queryVars, cosVars, storeVars, simVars, batchTexts, cacheVars, srvVars>>

BatchNext == BatchCall \/ BatchRespond \/ BatchResume

SpecBatch == BatchInit /\ [][BatchNext]_vars

\* C7: when createEmbeddings succeeds, results[i] is the embedding of
\* texts[i] for every i, in whatever order the requests were answered
C7_OutputMatchesInput ==
    (batch # None /\ batch[1].settled = "resolved") =>
        /\ Len(batch[1].results) = Len(batchTexts)
        /\ \A i \in 1..Len(batchTexts) :
            batch[1].results[i] = Some(createEmbedding(batchTexts[i]))

\* a success of more texts than workers whose embeddings arrived out of
\* order: the last text's before the first's
C7_Witness ==
    /\ batch # None
    /\ batch[1].settled = "resolved"
    /\ Len(batchTexts) > concurrencyLimit
    /\ \E p, q \in 1..Len(batch[1].completed) :
        /\ p < q
        /\ batch[1].completed[p] = Len(batchTexts)
        /\ batch[1].completed[q] = 1
    /\ createEmbedding(batchTexts[1]) # createEmbedding(batchTexts[Len(batchTexts)])

(***************************************************************************)
(* server.ts: the HTTP handlers.  A handler runs from one await to the     *)
(* next in one step; the Valkey command or provider request it awaits      *)
(* takes effect in the step that resumes it.  The clients of Spec send one *)
(* request at a time (maxActive = 1): each request arrives after the       *)
(* answer to the one before it.  In a request, `calls` counts the provider *)
(* requests it has sent, `hit` tells that it found its embedding in the    *)
(* cache, and `epoch` is the cacheEpoch of its key when it read or wrote   *)
(* the entry, `after` holds the requests answered before it arrived, and   *)
(* `tracked` the members of elements:ids when it arrived; a GET            *)
(* /similar/all keeps the ids it read and, in `records`, what               *)
(* getAllEmbeddings returned to it.                                        *)
(***************************************************************************)
\* server.ts, lines 183-184
DefaultThreshold == (8 * Prec) \div 10
DefaultLimit == 10

\* parseFloat(req.query.x as string) || dflt, parseInt(...) || dflt: a
\* parameter is absent (None), not a number (Some(NaN)) or a number
ParseOr(param, dflt) ==
    IF param = None \/ param = Some(NaN) \/ param = Some(0) THEN dflt ELSE param[1]

\* the query strings of GET /similar/all
SimilarAllQueries ==
    {[threshold |-> None, limit |-> None], [threshold |-> Some(Prec \div 2), limit |-> Some(1)]}

NewRequest(kind, body, query) ==
    [kind |-> kind, body |-> body, query |-> query, pc |-> "start",
     chunks |-> <<>>, embeddings |-> <<>>, embedding |-> None, id |-> 0, ids |-> <<>>,
     status |-> 0, response |-> None,
     calls |-> 0, hit |-> FALSE, epoch |-> 0,
     after |-> {r \in 1..Len(requests) : requests[r].pc = "done"},
     tracked |-> elementsIds, records |-> <<>>]

\* res.status(status).json(payload): the handler returns, its locals are gone
Respond(req, status, payload) ==
    [req EXCEPT !.pc = "done", !.status = status, !.response = payload,
                !.chunks = <<>>, !.embeddings = <<>>, !.ids = <<>>]

\* embeddingService.createEmbedding(elementData.elementString) up to its
\* first await (lines 18-26): the first chunk is requested
BeginEmbedding(req) ==
    LET chunks == ChunkTable[req.body.elementString]
    IN  [req EXCEPT !.chunks = chunks, !.embeddings = <<>>,
                    !.pc = IF chunks = <<>> THEN "embedResume" ELSE "embed",
                    !.calls = IF chunks = <<>> THEN @ ELSE @ + 1]

\* lines 59-63: the id is drawn, storeEmbedding sends its hset
BeginStore(req, embedding) ==
    [req EXCEPT !.embedding = Some(embedding), !.id = nextId + 1, !.pc = "hset"]

\* a handler that stores the new embedding without caching it
AfterEmbeddingNoCacheMutant(req, embedding) == BeginStore(req, embedding)

\* lines 53-56 after createEmbedding returned: cacheEmbedding sends its set
AfterEmbedding(req, embedding) ==
    IF req.body.metadata.fileHash # ""
    THEN [req EXCEPT !.embedding = Some(embedding), !.pc = "setCache"]
    ELSE BeginStore(req, embedding)

CanReceive ==
    /\ Len(requests) < MaxRequests
    /\ Cardinality({r \in 1..Len(requests) : requests[r].pc # "done"}) < maxActive

Running(kind, pc) == {r \in 1..Len(requests) : requests[r].kind = kind /\ requests[r].pc = pc}

SetRequest(r, req) ==
    /\ requests' = [requests EXCEPT ![r] = req]
    /\ nextId' = IF req.id # requests[r].id THEN nextId + 1 ELSE nextId
    /\ UNCHANGED maxActive

\* a handler without the check of elementString
ReceivePostElementNoCheckMutant ==
    /\ CanReceive
    /\ nextId + Cardinality({r \in 1..Len(requests) :
            requests[r].kind = "postElement" /\ requests[r].pc # "done"}) < MaxIds
    /\ \E body \in ElementBodies :
        LET req == NewRequest("postElement", body, None)
        IN  requests' = Append(requests,
                IF body.metadata.fileHash # ""
                THEN [req EXCEPT !.pc = "getCached"]
                ELSE BeginEmbedding(req))
    /\ UNCHANGED <<embedVars, pureVars, scanVars, queryVars, cosVars, storeVars, simVars, batchVars, cacheVars, nextId, maxActive>>

\* an id is left for a POST /elements to draw
IdLeft ==
    nextId + Cardinality({r \in 1..Len(requests) :
            requests[r].kind = "postElement" /\ requests[r].pc # "done"}) < MaxIds

\* the handler of POST /elements up to its first await (lines 30-47)
PostElementRequest(body) ==
    LET req == NewRequest("postElement", body, None)
    IN  IF body.elementString = ""
        THEN Respond(req, 400, [error |-> "elementString is required"])
        ELSE IF body.metadata.fileHash # ""
        THEN [req EXCEPT !.pc = "getCached"]
        ELSE BeginEmbedding(req)

\* POST /elements arrives (lines 30-47); an id is left for it to draw
ReceivePostElement ==
    /\ CanReceive
    /\ IdLeft
    /\ \E body \in ElementBodies :
        requests' = Append(requests, PostElementRequest(body))
    /\ UNCHANGED <<embedVars, pureVars, scanVars, queryVars, cosVars, storeVars, simVars, batchVars, cacheVars, nextId, maxActive>>

\* getCachedEmbedding answers (lines 43-49)
CacheGetReply ==
    /\ \E r \in Running("postElement", "getCached") :
        LET req == requests[r]
            cached == cache[KeyOf(req.body)]
        IN  SetRequest(r,
                IF cached # None
                THEN BeginStore([req EXCEPT !.hit = TRUE,
                                            !.epoch = cacheEpoch[KeyOf(req.body)]],
                                JsonParse(cached[1]))
                ELSE BeginEmbedding([req EXCEPT !.epoch = cacheEpoch[KeyOf(req.body)]]))
    /\ UNCHANGED <<embedVars, pureVars, scanVars, queryVars, cosVars, storeVars, simVars, batchVars, cacheVars>>

\* the provider answers the request for a chunk (lines 40-55), well or not
ProviderReply ==
    /\ \E r \in Running("postElement", "embed"), ok \in BOOLEAN :
        LET req == requests[r]
            embeddings == Append(req.embeddings, ProviderEmbedding(Head(req.chunks)))
        IN  SetRequest(r,
                IF ~ok THEN Respond(req, 500, [error |-> "Embedding API error"])
                ELSE IF Len(req.chunks) > 1
                THEN [req EXCEPT !.chunks = Tail(req.chunks), !.embeddings = embeddings,
                                 !.calls = @ + 1]
                ELSE AfterEmbedding([req EXCEPT !.chunks = <<>>, !.embeddings = embeddings],
                                    EmbeddingFrom(embeddings)))
    /\ UNCHANGED <<embedVars, pureVars, scanVars, queryVars, cosVars, storeVars, simVars, batchVars, cacheVars>>

\* createEmbedding returns without having sent a request
EmbedResume ==
    /\ \E r \in Running("postElement", "embedResume") :
        SetRequest(r, AfterEmbedding(requests[r], EmbeddingFrom(<<>>)))
    /\ UNCHANGED <<embedVars, pureVars, scanVars, queryVars, cosVars, storeVars, simVars, batchVars, cacheVars>>

\* cacheEmbedding: SET key value EX 604800
CacheSetReply ==
    /\ \E r \in Running("postElement", "setCache") :
        LET req == requests[r]
            key == KeyOf(req.body)
        IN  /\ cache' = [cache EXCEPT ![key] = Some(JsonStringify(req.embedding[1]))]
            /\ SetRequest(r, BeginStore([req EXCEPT !.epoch = cacheEpoch[key]],
                                        req.embedding[1]))
    /\ UNCHANGED <<embedVars, pureVars, scanVars, queryVars, cosVars, storeVars, simVars, batchVars, cacheEpoch>>

\* storeEmbedding: HSET element:<id>, then SADD is sent
HsetReply ==
    /\ \E r \in Running("postElement", "hset") :
        LET req == requests[r]
        IN  /\ elements' = [elements EXCEPT ![req.id] =
                    Some(HashFields([id |-> req.id, elementData |-> req.body,
                                     embedding |-> req.embedding[1]]))]
            /\ SetRequest(r, [req EXCEPT !.pc = "sadd"])
    /\ UNCHANGED <<embedVars, pureVars, scanVars, queryVars, cosVars, elementsIds, simVars, batchVars, cacheVars>>

\* storeEmbedding: SADD elements:ids <id>, then res.json({ id })
SaddReply ==
    /\ \E r \in Running("postElement", "sadd") :
        /\ elementsIds' = elementsIds \cup {requests[r].id}
        /\ SetRequest(r, Respond(requests[r], 200, [id |-> requests[r].id]))
    /\ UNCHANGED <<embedVars, pureVars, scanVars, queryVars, cosVars, elements, simVars, batchVars, cacheVars>>

\* DELETE /elements arrives: deleteAllEmbeddings sends SMEMBERS
ReceiveDelete ==
    /\ CanReceive
    /\ requests' = Append(requests,
            [NewRequest("deleteElements", None, None) EXCEPT !.pc = "smembers"])
    /\ UNCHANGED <<embedVars, pureVars, scanVars, queryVars, cosVars, storeVars, simVars, batchVars, cacheVars, nextId, maxActive>>

\* deleteAllEmbeddings, lines 95-102
DeleteSmembers ==
    /\ \E r \in Running("deleteElements", "smembers"), ids \in Orders(elementsIds) :
        SetRequest(r,
            IF Len(ids) = 0
            THEN Respond(requests[r], 200, [success |-> TRUE, deletedCount |-> 0])
            ELSE [requests[r] EXCEPT !.ids = ids, !.pc = "pipeline"])
    /\ UNCHANGED <<embedVars, pureVars, scanVars, queryVars, cosVars, storeVars, simVars, batchVars, cacheVars>>

\* a pipeline that holds DEL element:<id> for the first of ids only
DelKeysFirstOnlyMutant(db, ids) ==
    [id \in DOMAIN db |-> IF ids # <<>> /\ ids[1] = id THEN None ELSE db[id]]

\* ids.forEach(id => pipeline.del(`element:${id}`)), executed
DelKeys(db, ids) ==
    [id \in DOMAIN db |-> IF \E k \in 1..Len(ids) : ids[k] = id THEN None ELSE db[id]]

\* a wipe that deletes the cache entries with the records
DeletePipelineFlushMutant ==
    /\ \E r \in Running("deleteElements", "pipeline") :
        /\ elements' = DelKeys(elements, requests[r].ids)
        /\ elementsIds' = {}
        /\ cache' = [k \in CacheKeys |-> None]
        /\ SetRequest(r, Respond(requests[r], 200,
                                 [success |-> TRUE, deletedCount |-> Len(requests[r].ids)]))
    /\ UNCHANGED <<embedVars, pureVars, scanVars, queryVars, cosVars, simVars, batchVars, cacheEpoch>>

\* deleteAllEmbeddings, lines 104-105: the pipeline of DEL commands
DeletePipeline ==
    /\ \E r \in Running("deleteElements", "pipeline") :
        LET ids == requests[r].ids
        IN  /\ elements' = DelKeys(elements, ids)
            /\ elementsIds' = {}
            /\ SetRequest(r, Respond(requests[r], 200,
                                     [success |-> TRUE, deletedCount |-> Len(ids)]))
    /\ UNCHANGED <<embedVars, pureVars, scanVars, queryVars, cosVars, simVars, batchVars, cacheVars>>

\* GET /similar/all arrives (lines 183-186): getAllEmbeddings sends SMEMBERS
ReceiveSimilarAll ==
    /\ CanReceive
    /\ \E query \in SimilarAllQueries :
        requests' = Append(requests,
            [NewRequest("similarAll", None, query) EXCEPT !.pc = "smembers"])
    /\ UNCHANGED <<embedVars, pureVars, scanVars, queryVars, cosVars, storeVars, simVars, batchVars, cacheVars, nextId, maxActive>>

\* getAllEmbeddings, lines 65-70
GetAllSmembers ==
    /\ \E r \in Running("similarAll", "smembers"), ids \in Orders(elementsIds) :
        SetRequest(r, [requests[r] EXCEPT !.ids = ids, !.pc = "hgetall"])
    /\ UNCHANGED <<embedVars, pureVars, scanVars, queryVars, cosVars, storeVars, simVars, batchVars, cacheVars>>

\* getAllEmbeddings, lines 72-87, then findMostSimilarPairs and res.json
GetAllPipeline ==
    /\ \E r \in Running("similarAll", "hgetall") :
        LET req == requests[r]
            threshold == ParseOr(req.query.threshold, DefaultThreshold)
            limit == ParseOr(req.query.limit, DefaultLimit)
            allIndices == getAllEmbeddings(req.ids, elements)
        IN  SetRequest(r, [Respond(req, 200,
                [pairs |-> findMostSimilarPairs(allIndices, threshold, limit)])
                    EXCEPT !.ids = req.ids, !.records = allIndices])
    /\ UNCHANGED <<embedVars, pureVars, scanVars, queryVars, cosVars, storeVars, simVars, batchVars, cacheVars>>

\* seven days after it was last written, a cache entry expires
CacheExpire ==
    /\ \E key \in CacheKeys :
        /\ cache[key] # None
        /\ cache' = [cache EXCEPT ![key] = None]
        /\ cacheEpoch' = [cacheEpoch EXCEPT ![key] = @ + 1]
    /\ UNCHANGED <<embedVars, pureVars, scanVars, queryVars, cosVars, storeVars, simVars, batchVars, srvVars>>

\* what the database holds when the server starts: nothing, or the records
\* of two elements that a server stored before (their cache entries expired)
PriorElements ==
    {<<>>, <<ElementData("h1", "f", 1, "t1"), ElementData("h2", "g", 2, "t2")>>}

Init ==
    /\ EmbedUnused
    /\ PureUnused
    /\ ScanUnused
    /\ QueryUnused
    /\ CosUnused
    /\ simResp = None
    /\ BatchUnused
    /\ cache = [k \in CacheKeys |-> None]
    /\ cacheEpoch = [k \in CacheKeys |-> 0]
    /\ requests = <<>>
    /\ maxActive = 1
    /\ \E prior \in PriorElements :
        /\ elements = [id \in Ids |->
                IF id <= Len(prior)
                THEN Some(HashFields([id |-> id, elementData |-> prior[id],
                                     embedding |-> createEmbedding(prior[id].elementString)]))
                ELSE None]
        /\ elementsIds = 1..Len(prior)
        /\ nextId = Len(prior)

Next ==
    \/ ReceivePostElement
    \/ CacheGetReply
    \/ ProviderReply
    \/ EmbedResume
    \/ CacheSetReply
    \/ HsetReply
    \/ SaddReply
    \/ ReceiveDelete
    \/ DeleteSmembers
    \/ DeletePipeline
    \/ ReceiveSimilarAll
    \/ GetAllSmembers
    \/ GetAllPipeline
    \/ CacheExpire

Spec == Init /\ [][Next]_vars

(***************************************************************************)
(* server.ts: POST /elements/batch.  SpecPostBatch is one request on an    *)
(* empty store: Init draws the request body and what the cache holds, the  *)
(* createEmbeddings call of the handler is the pool of `batch`, whose      *)
(* requests the provider answers in any order.  In the request,            *)
(* `cachedResults` is the handler's local and `seen` is the cache as MGET  *)
(* found it.                                                               *)
(***************************************************************************)
\* the request bodies: arrays of up to MaxIds elements, and a body that is
\* not an array
BatchBodies ==
    {[isArray |-> TRUE, items |-> items] : items \in SeqsUpTo(ElementBodies, MaxIds)}
        \cup {[isArray |-> FALSE, items |-> <<>>]}

\* what the cache can hold at a key: nothing, or the embedding of a text
\* that was submitted at that key
CacheStates ==
    {c \in [CacheKeys -> {None} \cup {Some(JsonStringify(createEmbedding(b.elementString))) :
                                        b \in ElementBodies}] :
        \A k \in CacheKeys :
            c[k] # None =>
                \E b \in ElementBodies :
                    /\ KeyOf(b) = k /\ b.elementString # ""
                    /\ c[k] = Some(JsonStringify(createEmbedding(b.elementString)))}

\* lines 95-101: cacheKeys.filter(k => k.fileHash !== '')
RECURSIVE FilteredKeys(_, _)
FilteredKeys(items, i) ==
    IF i > Len(items) THEN <<>>
    ELSE (IF items[i].metadata.fileHash # "" THEN <<KeyOf(items[i])>> ELSE <<>>)
            \o FilteredKeys(items, i + 1)

\* getBatchCachedEmbeddings: results.map(r => r ? JSON.parse(r) : null)
getBatchCachedEmbeddings(keys, db) ==
    [k \in 1..Len(keys) |-> IF db[keys[k]] # None THEN Some(JsonParse(db[keys[k]][1])) ELSE None]

\* a loop that reads cachedResults at the index of the element
CachedForSameIndexMutant(items, cachedResults, i) ==
    IF items[i].metadata.fileHash # "" /\ i <= Len(cachedResults)
    THEN cachedResults[i] ELSE None

\* lines 106-115: cachedResults[cacheResultIdx++] for the elements with a
\* file hash, nothing for the others
CachedFor(items, cachedResults, i) ==
    IF items[i].metadata.fileHash # ""
    THEN cachedResults[Cardinality({j \in 1..i : items[j].metadata.fileHash # ""})]
    ELSE None

\* lines 103-117: indicesToFetch
RECURSIVE IndicesToFetch(_, _, _)
IndicesToFetch(items, cachedResults, i) ==
    IF i > Len(items) THEN <<>>
    ELSE (IF CachedFor(items, cachedResults, i) # None THEN <<>> ELSE <<i>>)
            \o IndicesToFetch(items, cachedResults, i + 1)

\* lines 146-153: the ids are drawn, storeEmbeddings sends its pipeline
BeginStoreBatch(req, embeddings) ==
    [req EXCEPT !.embeddings = embeddings,
                !.ids = [i \in 1..Len(req.body.items) |-> nextId + i],
                !.pc = "store"]

NewBatchRequest(body) ==
    [kind |-> "postBatch", body |-> body, pc |-> "start", cachedResults |-> <<>>,
     indicesToFetch |-> <<>>, chunks |-> <<>>, embeddings |-> <<>>, ids |-> <<>>,
     status |-> 0, response |-> None, seen |-> None]

\* POST /elements/batch arrives (lines 81-101)
ReceivePostBatch ==
    /\ requests = <<>>
    /\ \E body \in BatchBodies :
        LET req == NewBatchRequest(body)
        IN  requests' = <<IF ~body.isArray
                          THEN Respond(req, 400, [error |-> "Body must be an array of element data"])
                          ELSE IF Len(body.items) = 0
                          THEN Respond(req, 200, [ids |-> <<>>])
                          ELSE [req EXCEPT !.pc = "mget"]>>
    /\ UNCHANGED <<embedVars, pureVars, scanVars, queryVars, cosVars, storeVars, simVars, batchVars, cacheVars, nextId, maxActive>>

\* getBatchCachedEmbeddings answers; lines 103-122 and 142-153
MgetReply ==
    /\ \E r \in Running("postBatch", "mget") :
        LET req == requests[r]
            items == req.body.items
            cachedResults == getBatchCachedEmbeddings(FilteredKeys(items, 1), cache)
            indicesToFetch == IndicesToFetch(items, cachedResults, 1)
            found == [i \in 1..Len(items) |-> CachedFor(items, cachedResults, i)]
            got == [req EXCEPT !.cachedResults = cachedResults, !.seen = Some(cache),
                               !.indicesToFetch = indicesToFetch, !.embeddings = found]
        IN  IF indicesToFetch # <<>>
            THEN /\ batchTexts' = [k \in 1..Len(indicesToFetch) |->
                                        items[indicesToFetch[k]].elementString]
                 /\ batch' = Some(PoolStart(batchTexts'))
                 /\ requests' = [requests EXCEPT ![r] = [got EXCEPT !.pc = "embed"]]
                 /\ UNCHANGED nextId
            ELSE /\ requests' = [requests EXCEPT ![r] = BeginStoreBatch(got, found)]
                 /\ nextId' = nextId + Len(items)
                 /\ UNCHANGED batchVars
    /\ UNCHANGED <<embedVars, pureVars, scanVars, queryVars, cosVars, storeVars, simVars, cacheVars, maxActive>>

\* lines 126-137: embeddings[batchIndex] = fetchedEmbeddings[i]
Fetched(req, fetchedEmbeddings) ==
    [i \in 1..Len(req.embeddings) |->
        IF \E k \in 1..Len(req.indicesToFetch) : req.indicesToFetch[k] = i
        THEN fetchedEmbeddings[CHOOSE k \in 1..Len(req.indicesToFetch) :
                                    req.indicesToFetch[k] = i]
        ELSE req.embeddings[i]]

\* lines 131-136: the elements of cacheEntries are those fetched for an
\* element with a file hash
CacheEntryIndices(req) ==
    SelectSeq(req.indicesToFetch, LAMBDA i : req.body.items[i].metadata.fileHash # "")

\* createEmbeddings has settled (lines 122-141, 146-153, 156-158)
EmbeddingsSettled ==
    /\ batch # None
    /\ batch[1].settled # "pending"
    /\ \E r \in Running("postBatch", "embed") :
        LET req == requests[r]
            embeddings == Fetched(req, batch[1].results)
        IN  IF batch[1].settled = "rejected"
            THEN /\ requests' = [requests EXCEPT ![r] =
                        Respond(req, 500, [error |-> "Embedding API error"])]
                 /\ UNCHANGED nextId
            ELSE IF CacheEntryIndices(req) # <<>>
            THEN /\ requests' = [requests EXCEPT ![r] =
                        [req EXCEPT !.embeddings = embeddings, !.pc = "cacheSet"]]
                 /\ UNCHANGED nextId
            ELSE /\ requests' = [requests EXCEPT ![r] = BeginStoreBatch(req, embeddings)]
                 /\ nextId' = nextId + Len(req.body.items)
    /\ UNCHANGED <<embedVars, pureVars, scanVars, queryVars, cosVars, storeVars, simVars, batchVars, cacheVars, maxActive>>

\* cacheEmbeddings: the pipeline of SET commands in the order of the entries
RECURSIVE SetEntries(_, _, _)
SetEntries(db, req, k) ==
    IF k > Len(CacheEntryIndices(req)) THEN db
    ELSE LET i == CacheEntryIndices(req)[k]
         IN  SetEntries([db EXCEPT ![KeyOf(req.body.items[i])] =
                            Some(JsonStringify(req.embeddings[i][1]))],
                        req, k + 1)

\* cacheEmbeddings answers (lines 139-153)
CachePipelineReply ==
    /\ \E r \in Running("postBatch", "cacheSet") :
        /\ cache' = SetEntries(cache, requests[r], 1)
        /\ requests' = [requests EXCEPT ![r] = BeginStoreBatch(requests[r], requests[r].embeddings)]
        /\ nextId' = nextId + Len(requests[r].body.items)
    /\ UNCHANGED <<embedVars, pureVars, scanVars, queryVars, cosVars, storeVars, simVars, batchVars, cacheEpoch, maxActive>>

\* storeEmbeddings: the pipeline of HSET and SADD commands
RECURSIVE StoreAll(_, _, _)
StoreAll(db, req, i) ==
    IF i > Len(req.ids) THEN db
    ELSE StoreAll([db EXCEPT ![req.ids[i]] =
                        Some(HashFields([id |-> req.ids[i], elementData |-> req.body.items[i],
                                         embedding |-> req.embeddings[i][1]]))],
                  req, i + 1)

\* storeEmbeddings answers (lines 153-155)
StorePipelineReply ==
    /\ \E r \in Running("postBatch", "store") :
        LET req == requests[r]
        IN  /\ elements' = StoreAll(elements, req, 1)
            /\ elementsIds' = elementsIds \cup {req.ids[i] : i \in 1..Len(req.ids)}
            /\ requests' = [requests EXCEPT ![r] =
                    [req EXCEPT !.pc = "done", !.status = 200, !.response = [ids |-> req.ids]]]
    /\ UNCHANGED <<embedVars, pureVars, scanVars, queryVars, cosVars, simVars, batchVars, cacheVars, nextId, maxActive>>

PostBatchInit ==
    /\ EmbedUnused
    /\ PureUnused
    /\ ScanUnused
    /\ QueryUnused
    /\ CosUnused
    /\ StoreUnused
    /\ simResp = None
    /\ BatchUnused
    /\ cache \in CacheStates
    /\ cacheEpoch = [k \in CacheKeys |-> 0]
    /\ nextId = 0
    /\ requests = <<>>
    /\ maxActive = 1

PostBatchNext ==
    \/ ReceivePostBatch
    \/ MgetReply
    \/ BatchRespond
    \/ BatchResume
    \/ EmbeddingsSettled
    \/ CachePipelineReply
    \/ StorePipelineReply

SpecPostBatch == PostBatchInit /\ [][PostBatchNext]_vars

(***************************************************************************)
(* Properties of the server                                                *)
(***************************************************************************)
Posts == {r \in 1..Len(requests) : requests[r].kind = "postElement"}
Deletes == {r \in 1..Len(requests) : requests[r].kind = "deleteElements"}
SimilarAlls == {r \in 1..Len(requests) : requests[r].kind = "similarAll"}

Done(r) == requests[r].pc = "done"
Succeeded(r) == Done(r) /\ requests[r].status = 200
TextOf(r) == requests[r].body.elementString
ChunkCount(r) == Len(ChunkTable[TextOf(r)])

\* r1 and r2 submit an element with a file hash at the same (fileHash,
\* elementName, lineNumber); r2 arrived after the answer 200 to r1, and has
\* read the cache before the entry that r1 wrote or read expired
SameKeySubmissions ==
    {p \in Posts \X Posts :
        /\ p[1] \in requests[p[2]].after
        /\ Succeeded(p[1])
        /\ requests[p[1]].body.metadata.fileHash # ""
        /\ KeyOf(requests[p[1]].body) = KeyOf(requests[p[2]].body)
        /\ TextOf(p[2]) # ""
        /\ requests[p[2]].pc # "getCached"
        /\ requests[p[2]].epoch = requests[p[1]].epoch}

\* no other submission at the key of r1 was between its cache miss and its
\* cache write when r1 was answered
NoRacingSubmission(r1) ==
    \A r3 \in Posts \ {r1} :
        (/\ KeyOf(requests[r3].body) = KeyOf(requests[r1].body)
         /\ ~requests[r3].hit
         /\ requests[r3].epoch = requests[r1].epoch) => r3 \in requests[r1].after

\* C8 as stated: the second of two submissions at one cache key is a cache
\* hit, and the provider was sent exactly one request by the two together
C8_ProviderInvokedOnce ==
    \A p \in SameKeySubmissions :
        Done(p[2]) =>
            /\ requests[p[2]].hit
            /\ requests[p[1]].calls + requests[p[2]].calls = 1

\* C8: the second of two submissions at one cache key is a cache hit that
\* sends the provider no request and stores the vector found in the cache,
\* which a submission that missed the cache computed; the first submission
\* sent the provider one request for each chunk of its text, or none if it
\* was a cache hit itself
C8_SecondIsCacheHit ==
    \A p \in SameKeySubmissions :
        LET first == requests[p[1]]
            second == requests[p[2]]
        IN  /\ second.hit
            /\ second.calls = 0
            /\ first.calls = IF first.hit THEN 0 ELSE ChunkCount(p[1])
            /\ second.embedding # None
            /\ \E r0 \in Posts :
                /\ KeyOf(requests[r0].body) = KeyOf(second.body)
                /\ ~requests[r0].hit
                /\ requests[r0].epoch = second.epoch
                /\ requests[r0].embedding = Some(createEmbedding(TextOf(r0)))
                /\ second.embedding = requests[r0].embedding
            /\ NoRacingSubmission(p[1]) => second.embedding = first.embedding
            /\ (Succeeded(p[2]) /\ elements[second.id] # None) =>
                /\ second.id # first.id
                /\ getEmbedding(elements, second.id)[1].embedding = second.embedding[1]

\* a second submission of another text at the key of the first one has stored
\* the vector of the first text
C8_Witness ==
    \E p \in SameKeySubmissions :
        /\ Succeeded(p[2])
        /\ TextOf(p[2]) # TextOf(p[1])
        /\ requests[p[1]].calls = 1
        /\ elements[requests[p[2]].id] # None
        /\ getEmbedding(elements, requests[p[2]].id)[1].embedding
               = createEmbedding(TextOf(p[1]))
        /\ createEmbedding(TextOf(p[2])) # createEmbedding(TextOf(p[1]))

\* a request that writes element records or the id-set
Writes(r) ==
    \/ requests[r].kind = "deleteElements"
    \/ /\ requests[r].kind = "postElement"
       /\ ~(Done(r) /\ requests[r].status \in {400, 500})

\* no writer was at work between the arrival of d and its answer
NoConcurrentWriter(d) ==
    \A r \in 1..Len(requests) :
        (r # d /\ Writes(r)) => (r \in requests[d].after \/ d \in requests[r].after)

\* no POST /elements has been at work since d arrived
NoWriterSince(d) ==
    \A r \in Posts : Writes(r) => r \in requests[d].after

\* C9: a DELETE /elements that ran with no concurrent writer answers the
\* number of ids that elements:ids held (0 if none); until the next write
\* getAllEmbeddings returns no record, getEmbedding(id) is null for every id
\* that was tracked, and a GET /similar/all that arrives answers no pair
C9_DeleteAllEmptiesStore ==
    \A d \in Deletes :
        Done(d) =>
            /\ NoConcurrentWriter(d) =>
                /\ requests[d].status = 200
                /\ requests[d].response.success
                /\ requests[d].response.deletedCount = Cardinality(requests[d].tracked)
            /\ (NoConcurrentWriter(d) /\ NoWriterSince(d)) =>
                /\ \A ids \in Orders(elementsIds) : getAllEmbeddings(ids, elements) = <<>>
                /\ \A id \in requests[d].tracked : getEmbedding(elements, id) = None
                /\ \A g \in SimilarAlls :
                    (d \in requests[g].after /\ Done(g)) =>
                        /\ requests[g].status = 200
                        /\ requests[g].response.pairs = <<>>

\* a GET /similar/all with the default parameters answered a pair, then the
\* two records were deleted, and another GET /similar/all has been answered
C9_Witness ==
    \E g0, g \in SimilarAlls, d \in Deletes :
        /\ Done(d) /\ NoConcurrentWriter(d) /\ NoWriterSince(d)
        /\ Done(g0) /\ g0 \in requests[d].after
        /\ requests[g0].tracked = requests[d].tracked
        /\ requests[g0].query = requests[g].query
        /\ requests[g0].response.pairs # <<>>
        /\ requests[d].response.deletedCount = 2
        /\ Done(g) /\ d \in requests[g].after
        /\ requests[g].response.pairs = <<>>

\* a step of the handler of DELETE /elements
DeleteStep ==
    \E d \in Deletes : requests[d].pc # "done" /\ requests'[d] # requests[d]

\* a POST /elements p at the key of r1, which had been answered 200 when the
\* DELETE /elements d arrived; p arrived after the answer to d and has read
\* the cache before the entry of r1 expired
ResubmissionsAfterWipe ==
    {t \in Posts \X Deletes \X Posts :
        /\ <<t[1], t[3]>> \in SameKeySubmissions
        /\ t[1] \in requests[t[2]].after
        /\ t[2] \in requests[t[3]].after}

\* the records can be told apart by their ids
FreshId(r) == \A r0 \in Posts \ {r} : requests[r0].id # requests[r].id

\* C10, the wipe: no step of DELETE /elements changes the embedding cache
C10_DeleteKeepsCache == [][DeleteStep => cache' = cache]_vars

\* C10, the hit: a submission at a cache key that was cached before a wipe
\* is a cache hit that sends the provider no request and stores its record
\* under a new id
C10_HitAfterWipe ==
    \A t \in ResubmissionsAfterWipe :
        /\ requests[t[3]].hit
        /\ requests[t[3]].calls = 0
        /\ Succeeded(t[3]) =>
            /\ FreshId(t[3])
            /\ requests[t[3]].id \notin requests[t[2]].tracked
            /\ requests[t[3]].id \in elementsIds \/ \E d \in Deletes : d > t[2]

\* C10: DELETE /elements changes element records and the id-set only: every
\* cache entry stays as it was, so that a submission at the same cache key
\* after the wipe is a cache hit, with no provider request, whose record has
\* a new id
C10_WipeSparesCache == C10_DeleteKeepsCache /\ []C10_HitAfterWipe

\* the record of r1 was deleted, and the element was stored again from the
\* cache under another id
C10_Witness ==
    \E t \in ResubmissionsAfterWipe :
        /\ requests[t[1]].id \in requests[t[2]].tracked
        /\ Succeeded(t[2])
        /\ requests[t[2]].response.deletedCount = 1
        /\ Succeeded(t[3])
        /\ requests[t[3]].hit
        /\ requests[t[3]].id # requests[t[1]].id
        /\ elements[requests[t[1]].id] = None
        /\ elements[requests[t[3]].id] # None
        /\ cache[KeyOf(requests[t[1]].body)] = Some(JsonStringify(requests[t[1]].embedding[1]))

\* the embedding that belongs to element i of the request: the vector the
\* cache held at its key when MGET read it, else the embedding of its text
OwnEmbedding(req, i) ==
    LET e == req.body.items[i]
    IN  IF e.metadata.fileHash # "" /\ req.seen[1][KeyOf(e)] # None
        THEN JsonParse(req.seen[1][KeyOf(e)][1])
        ELSE createEmbedding(e.elementString)

IsMiss(req, i) ==
    LET e == req.body.items[i]
    IN  e.metadata.fileHash = "" \/ req.seen[1][KeyOf(e)] = None

\* C11: a POST /elements/batch answered 200 returns one id for each element,
\* in the order of the request; ids[i] is the stored record of element i
\* with the vector cached at its key on a hit and the embedding of its text
\* otherwise; createEmbeddings was given the texts of the misses only
C11_BatchIdsAligned ==
    \A r \in 1..Len(requests) :
        (requests[r].kind = "postBatch" /\ Succeeded(r) /\ requests[r].body.items # <<>>) =>
            LET req == requests[r]
                items == req.body.items
                ids == req.response.ids
                misses == SelectSeq([i \in 1..Len(items) |-> i], LAMBDA i : IsMiss(req, i))
            IN  /\ Len(ids) = Len(items)
                /\ \A i, j \in 1..Len(ids) : i # j => ids[i] # ids[j]
                /\ \A i \in 1..Len(items) :
                    /\ ids[i] \in elementsIds
                    /\ getEmbedding(elements, ids[i]) =
                            Some([id |-> ids[i], elementData |-> items[i],
                                  embedding |-> OwnEmbedding(req, i)])
                /\ IF misses = <<>> THEN batch = None
                   ELSE /\ batch # None
                        /\ batchTexts = [k \in 1..Len(misses) |-> items[misses[k]].elementString]
                        /\ Len(batch[1].completed) = Len(misses)

\* three elements were stored: a cache hit whose cached vector is not the
\* embedding of its text, a miss at another cache key, an element without a
\* file hash
C11_Witness ==
    \E r \in 1..Len(requests) :
        /\ requests[r].kind = "postBatch" /\ Succeeded(r)
        /\ LET req == requests[r]
               items == req.body.items
           IN  \E h, m, n \in 1..Len(items) :
                /\ ~IsMiss(req, h)
                /\ OwnEmbedding(req, h) # createEmbedding(items[h].elementString)
                /\ getEmbedding(elements, req.response.ids[h])[1].embedding = OwnEmbedding(req, h)
                /\ items[m].metadata.fileHash # "" /\ IsMiss(req, m)
                /\ items[n].metadata.fileHash = ""
                /\ n < h

(***************************************************************************)
(* extract.ts.  The content of a file is a sequence of characters; an      *)
(* index is an index of the code (the first character has index 0).  A     *)
(* signature regex is a literal: it matches the occurrences of a word.     *)
(* An element of the result carries the index at which its match started.  *)
(***************************************************************************)
\* most pieces of a file content
MaxTokens == 5

\* content[i]
CharAt(content, i) == content[i + 1]

\* content.substring(from, to)
Substring(content, from, to) == SubSeq(content, from + 1, to)

\* isInsideComment without the search for a multi-line comment
isInsideCommentLineOnlyMutant(content, position) ==
    LET lineStart == CHOOSE k \in 0..position :
            /\ k = 0 \/ CharAt(content, k - 1) = "\n"
            /\ \A j \in (k + 1)..position : CharAt(content, j - 1) # "\n"
    IN  \E k \in lineStart..(position - 2) :
            CharAt(content, k) = "/" /\ CharAt(content, k + 1) = "/"

\* isInsideComment, lines 8-43
isInsideComment(content, position) ==
    LET lineStart == CHOOSE k \in 0..position :
            /\ k = 0 \/ CharAt(content, k - 1) = "\n"
            /\ \A j \in (k + 1)..position : CharAt(content, j - 1) # "\n"
        starts == {i \in 1..(position - 1) :
                        CharAt(content, i - 1) = "/" /\ CharAt(content, i) = "*"}
        lastCommentStart ==
            IF starts = {} THEN -1 ELSE (CHOOSE i \in starts : \A j \in starts : j <= i) - 1
    IN  IF \E k \in lineStart..(position - 2) :
                CharAt(content, k) = "/" /\ CharAt(content, k + 1) = "/"
        THEN TRUE
        ELSE IF lastCommentStart = -1 THEN FALSE
        ELSE ~\E i \in (lastCommentStart + 2)..(position - 1) :
                /\ i < Len(content) - 1
                /\ CharAt(content, i) = "*"
                /\ CharAt(content, i + 1) = "/"

\* content.matchAll(regex) for a literal: the indices of the occurrences of
\* the word from index i on, none overlapping the one before it
RECURSIVE MatchAll(_, _, _)
MatchAll(content, word, i) ==
    IF i + Len(word) > Len(content) THEN <<>>
    ELSE IF Substring(content, i, i + Len(word)) = word
    THEN <<i>> \o MatchAll(content, word, i + Len(word))
    ELSE MatchAll(content, word, i + 1)

\* excludeRegex.test(str) for a literal: the result and the lastIndex the
\* regex is left with.  Without the global flag the search starts at 0 and
\* lastIndex stays 0; with it the search starts at lastIndex, a match sets
\* lastIndex behind itself and a failure sets it to 0
RegexTest(regex, str, lastIndex) ==
    LET from == IF regex.global THEN lastIndex ELSE 0
        hits == {k \in from..(Len(str) - Len(regex.source)) :
                    Substring(str, k, k + Len(regex.source)) = regex.source}
        first == CHOOSE k \in hits : \A j \in hits : k <= j
    IN  IF hits = {} THEN [result |-> FALSE, lastIndex |-> 0]
        ELSE [result |-> TRUE,
              lastIndex |-> IF regex.global THEN first + Len(regex.source) ELSE 0]

\* excludeRegexes.some(excludeRegex => excludeRegex.test(signature)) from the
\* k-th regex on: the regexes are tested in turn up to the first that matches
RECURSIVE SomeExclude(_, _, _, _)
SomeExclude(excludeRegexes, signature, lastIndexes, k) ==
    IF k > Len(excludeRegexes) THEN [result |-> FALSE, lastIndexes |-> lastIndexes]
    ELSE LET test == RegexTest(excludeRegexes[k], signature, lastIndexes[k])
             after == [lastIndexes EXCEPT ![k] = test.lastIndex]
         IN  IF test.result THEN [result |-> TRUE, lastIndexes |-> after]
             ELSE SomeExclude(excludeRegexes, signature, after, k + 1)

\* a run that never finds a start index among those seen
AlreadySeenNeverMutant(seenPositions, startIndex) == FALSE

\* seenPositions.has(startIndex)
AlreadySeen(seenPositions, startIndex) == startIndex \in seenPositions

\* lines 96-108: the index of the opening brace of the body, from index i on
RECURSIVE FindBodyStart(_, _, _)
FindBodyStart(content, from, i) ==
    IF i >= Len(content) THEN -1
    ELSE IF CharAt(content, i) = "{" THEN i
    ELSE IF CharAt(content, i) = ";" \/ (CharAt(content, i) = "}" /\ i > from) THEN -1
    ELSE FindBodyStart(content, from, i + 1)

\* a search for the end of the body that stops at the first closing brace
FindBodyEndFirstCloseMutant(content, i, braceCount) ==
    LET closes == {k \in i..(Len(content) - 1) : CharAt(content, k) = "}"}
    IN  IF closes = {} THEN -1 ELSE (CHOOSE k \in closes : \A j \in closes : k <= j) + 1

\* lines 113-128: the index behind the end of the body, from index i on
RECURSIVE FindBodyEnd(_, _, _)
FindBodyEnd(content, i, braceCount) ==
    IF i >= Len(content) THEN -1
    ELSE LET count == IF CharAt(content, i) = "{" THEN braceCount + 1
                      ELSE IF CharAt(content, i) = "}" THEN braceCount - 1
                      ELSE braceCount
         IN  IF count = 0 THEN i + 1 ELSE FindBodyEnd(content, i + 1, count)

\* beforeMatch.split('\n').length
LineNumberAt(content, startIndex) ==
    Cardinality({k \in 0..(startIndex - 1) : CharAt(content, k) = "\n"}) + 1

\* lines 70-141 for the matches of the r-th include regex from the m-th on;
\* the result is <<found, seenPositions, lastIndexes>>, found being the array
\* `elements` of the code and lastIndexes the lastIndex of every exclude regex
RECURSIVE ExtractMatches(_, _, _, _, _, _, _, _)
ExtractMatches(filePath, content, includeRegexes, r, excludeRegexes, matches, m, found) ==
    IF m > Len(matches) THEN found
    ELSE LET startIndex == matches[m]
             signature == includeRegexes[r]
             excluded == SomeExclude(excludeRegexes, signature, found.lastIndexes, 1)
             bodyStartIndex == FindBodyStart(content, startIndex + Len(signature),
                                             startIndex + Len(signature))
             bodyEndIndex == FindBodyEnd(content, bodyStartIndex, 0)
             skip == \/ excluded.result
                     \/ AlreadySeen(found.seenPositions, startIndex)
                     \/ isInsideComment(content, startIndex)
                     \/ bodyStartIndex = -1
                     \/ bodyEndIndex = -1
             element == [metadata |-> [filePath |-> filePath,
                                       lineNumber |-> LineNumberAt(content, startIndex),
                                       elementName |-> Trim(signature)],
                         elementString |-> Substring(content, startIndex, bodyEndIndex),
                         startIndex |-> startIndex, regex |-> r]
         IN  ExtractMatches(filePath, content, includeRegexes, r, excludeRegexes, matches, m + 1,
                IF skip
                THEN [found EXCEPT !.lastIndexes = excluded.lastIndexes]
                ELSE [elements |-> Append(found.elements, element),
                      seenPositions |-> found.seenPositions \cup {startIndex},
                      lastIndexes |-> excluded.lastIndexes])

\* lines 64-143 from the r-th include regex on
RECURSIVE ExtractRegexes(_, _, _, _, _, _)
ExtractRegexes(filePath, content, includeRegexes, excludeRegexes, r, found) ==
    IF r > Len(includeRegexes) THEN found.elements
    ELSE ExtractRegexes(filePath, content, includeRegexes, excludeRegexes, r + 1,
            ExtractMatches(filePath, content, includeRegexes, r, excludeRegexes,
                           MatchAll(content, includeRegexes[r], 0), 1, found))

\* extractElements, for the content that fs.readFileSync returned; the
\* exclude regexes are new objects, their lastIndex is 0
extractElements(filePath, content, includeRegexes, excludeRegexes) ==
    ExtractRegexes(filePath, content, includeRegexes, excludeRegexes, 1,
                   [elements |-> <<>>, seenPositions |-> {},
                    lastIndexes |-> [k \in 1..Len(excludeRegexes) |-> 0]])

\* the pieces file contents are made of: a signature, braces, the marks of
\* comments, a line break, a semicolon
Tokens == {<<"f">>, <<"{">>, <<"}">>, <<"/", "*">>, <<"*", "/">>, <<"/", "/">>, <<"\n">>, <<";">>}

RECURSIVE Flatten(_)
Flatten(pieces) == IF pieces = <<>> THEN <<>> ELSE Head(pieces) \o Flatten(Tail(pieces))

Contents == {Flatten(pieces) : pieces \in SeqsUpTo(Tokens, MaxTokens)}

\* the signature regexes of the run: one regex, no exclude regex
IncludeRegexes == <<<<"f">>>>
ExcludeRegexes == <<>>

ExtractInit ==
    /\ EmbedUnused
    /\ extContent \in Contents
    /\ extRegexes = Some([include |-> IncludeRegexes, exclude |-> ExcludeRegexes])
    /\ extracted = None
    /\ chunkIn = None
    /\ chunkOut = None
    /\ avgIn = <<>>
    /\ avgOut = None
    /\ ScanUnused
    /\ QueryUnused
    /\ CosUnused
    /\ StoreUnused
    /\ simResp = None
    /\ BatchUnused
    /\ ServerIdle

CallExtractElements ==
    /\ extracted = None
    /\ extracted' = Some(extractElements("a.ts", extContent, extRegexes[1].include,
                                          extRegexes[1].exclude))
    /\ UNCHANGED <<embedVars, extContent, extRegexes, chunkIn, chunkOut, avgIn, avgOut, scanVars, queryVars, cosVars, storeVars,
                   simVars, batchVars, cacheVars, srvVars>>

ExtractNext == CallExtractElements

SpecExtract == ExtractInit /\ [][ExtractNext]_vars

\* the index p lies behind a // of its line
AfterLineComment(content, p) ==
    \E k \in 0..(p - 2) :
        /\ CharAt(content, k) = "/" /\ CharAt(content, k + 1) = "/"
        /\ \A j \in k..(p - 1) : CharAt(content, j) # "\n"

\* a /* lies before the index p, and no */ lies between the two
InsideOpenBlock(content, p) ==
    \E k \in 0..(p - 2) :
        /\ CharAt(content, k) = "/" /\ CharAt(content, k + 1) = "*"
        /\ ~\E j \in (k + 2)..(p - 2) :
                CharAt(content, j) = "*" /\ CharAt(content, j + 1) = "/"

\* C12: extractElements emits no element whose signature match starts
\* behind a // of its line, or behind a /* that no */ before the match
\* start closes
C12_NoElementInComment ==
    extracted # None =>
        \A e \in 1..Len(extracted[1]) :
            /\ ~AfterLineComment(extContent, extracted[1][e].startIndex)
            /\ ~InsideOpenBlock(extContent, extracted[1][e].startIndex)

\* the signatures with a balanced body: the matches at which an element
\* would start if comments were not looked at
BodiedMatches(content) ==
    {p \in 0..(Len(content) - 1) :
        /\ CharAt(content, p) = "f"
        /\ FindBodyStart(content, p + 1, p + 1) # -1
        /\ FindBodyEnd(content, FindBodyStart(content, p + 1, p + 1), 0) # -1}

\* a signature with a balanced body that lies behind an open /* was passed
\* over
C12_Witness ==
    /\ extracted = Some(<<>>)
    /\ \E p \in BodiedMatches(extContent) :
        /\ InsideOpenBlock(extContent, p)
        /\ ~AfterLineComment(extContent, p)

\* the numbers of opening and of closing braces at the indices from..to
Opens(content, from, to) == Cardinality({k \in from..to : CharAt(content, k) = "{"})
Closes(content, from, to) == Cardinality({k \in from..to : CharAt(content, k) = "}"})

\* the closing brace at index c matches the opening brace at index o
MatchesBrace(content, o, c) ==
    /\ CharAt(content, o) = "{" /\ CharAt(content, c) = "}" /\ o < c
    /\ Opens(content, o, c) = Closes(content, o, c)
    /\ \A k \in o..(c - 1) : Opens(content, o, k) > Closes(content, o, k)

\* C13: the elementString of an emitted element is the text from the start
\* of its signature match through the closing brace that matches the first
\* opening brace behind the signature, however deep the braces between
C13_ElementStringIsBalancedBody ==
    extracted # None =>
        \A e \in 1..Len(extracted[1]) :
            LET el == extracted[1][e]
                s == el.startIndex
            IN  \E o \in (s + 1)..(Len(extContent) - 1), c \in (s + 1)..(Len(extContent) - 1) :
                    /\ \A k \in (s + 1)..(o - 1) : CharAt(extContent, k) # "{"
                    /\ MatchesBrace(extContent, o, c)
                    /\ el.elementString = Substring(extContent, s, c + 1)

\* an element whose body holds a pair of braces was emitted
C13_Witness ==
    /\ extracted # None
    /\ \E e \in 1..Len(extracted[1]) :
        LET el == extracted[1][e].elementString
        IN  /\ Len(el) >= 5
            /\ el[2] = "{" /\ el[3] = "{" /\ el[4] = "}" /\ el[5] = "}"

(***************************************************************************)
(* The specification of splitIntoChunks as a pure function: Init draws a   *)
(* text, given by the kinds of its lines, and the configured chunk size.   *)
(***************************************************************************)
\* most lines of a text
MaxLines == 4

\* the lines texts are made of: 30, 60 and 99 letters, 250 letters, 40
\* blanks, nothing; and the lines of the 2500-character texts
LineKinds == {"a30", "b60", "d99", "c250", "blank40", "empty"}

LineText(kind) ==
    CASE kind = "a30" -> Rep("a", 30)
      [] kind = "b60" -> Rep("b", 60)
      [] kind = "d99" -> Rep("d", 99)
      [] kind = "c250" -> Rep("c", 250)
      [] kind = "blank40" -> Rep(" ", 40)
      [] kind = "empty" -> <<>>
      [] kind = "s49" -> Rep("s", 49)
      [] kind = "s99" -> Rep("s", 99)
      [] kind = "s124" -> Rep("s", 124)

\* lines.join('\n')
RECURSIVE JoinLines(_)
JoinLines(kinds) ==
    IF kinds = <<>> THEN <<>>
    ELSE IF Len(kinds) = 1 THEN LineText(kinds[1])
    ELSE LineText(kinds[1]) \o <<"\n">> \o JoinLines(Tail(kinds))

\* the values of EMBEDDING_CHUNK_SIZE: unset or not a number, below the
\* least limit, the least limit, above it
ChunkSizes == {0, 50, 100, 150}

\* 2500-character texts of short lines, for a chunk size of 1000: lines
\* of 50, 100 and 125 characters with their line breaks
ScenarioInputs ==
    {[lines |-> Rep("s49", 50) \o <<"empty">>, embeddingChunkSize |-> 1000],
     [lines |-> Rep("s99", 25) \o <<"empty">>, embeddingChunkSize |-> 1000],
     [lines |-> Rep("s124", 20) \o <<"empty">>, embeddingChunkSize |-> 1000]}

ChunkInputs ==
    {[lines |-> lines, embeddingChunkSize |-> size] :
        lines \in SeqsUpTo(LineKinds, MaxLines), size \in ChunkSizes} \cup ScenarioInputs

ChunkInit ==
    /\ EmbedUnused
    /\ extContent = <<>>
    /\ extRegexes = None
    /\ extracted = None
    /\ chunkIn \in {Some(input) : input \in ChunkInputs}
    /\ chunkOut = None
    /\ avgIn = <<>>
    /\ avgOut = None
    /\ ScanUnused
    /\ QueryUnused
    /\ CosUnused
    /\ StoreUnused
    /\ simResp = None
    /\ BatchUnused
    /\ ServerIdle

CallSplitIntoChunks ==
    /\ chunkOut = None
    /\ chunkOut' = Some(splitIntoChunksAt(JoinLines(chunkIn[1].lines),
                                          chunkIn[1].embeddingChunkSize))
    /\ UNCHANGED <<embedVars, extContent, extRegexes, extracted, chunkIn, avgIn, avgOut, scanVars, queryVars, cosVars, storeVars,
                   simVars, batchVars, cacheVars, srvVars>>

ChunkNext == CallSplitIntoChunks

SpecChunk == ChunkInit /\ [][ChunkNext]_vars

\* the configured chunk limit: EMBEDDING_CHUNK_SIZE, 1000 when it is not set
ConfiguredLimit(size) == IF size = 0 THEN 1000 ELSE size

\* the limit splitIntoChunks works with: the configured one, but at least 100
EffectiveLimit(size) == IF ConfiguredLimit(size) < 100 THEN 100 ELSE ConfiguredLimit(size)

\* how often the line is a whole line of one of the chunks
RECURSIVE WholeLines(_, _)
WholeLines(chunks, line) ==
    IF chunks = <<>> THEN 0
    ELSE LET chunkLines == SplitLines(Head(chunks))
         IN  Cardinality({k \in 1..Len(chunkLines) : chunkLines[k] = line})
                + WholeLines(Tail(chunks), line)

\* the chunks against a limit: the text itself when it is no longer than the
\* limit; otherwise no chunk is longer than the limit, and every line that is
\* shorter than the limit and not blank is a whole line of a chunk as often
\* as it is a line of the text; the 2500-character texts give 3 chunks
ChunkedWithin(input, chunks, limit) ==
    LET text == JoinLines(input.lines)
        lines == SplitLines(text)
    IN  /\ Len(text) <= limit => chunks = <<text>>
        /\ Len(text) > limit =>
            /\ \A c \in 1..Len(chunks) : Len(chunks[c]) <= limit
            /\ \A k \in 1..Len(lines) :
                (Len(lines[k]) < limit /\ Trim(lines[k]) # <<>>) =>
                    WholeLines(chunks, lines[k])
                        = Cardinality({j \in 1..Len(lines) : lines[j] = lines[k]})
        /\ input \in ScenarioInputs => Len(text) = 2500 /\ Len(chunks) = 3

\* C14 as stated: the chunks keep to the configured chunk limit
C14_ChunksWithinConfigured ==
    chunkOut # None =>
        ChunkedWithin(chunkIn[1], chunkOut[1], ConfiguredLimit(chunkIn[1].embeddingChunkSize))

\* C14: the chunks keep to the limit max(100, configured chunk limit): a text
\* no longer than it is its own single chunk; otherwise no chunk is longer
\* than it and no line shorter than it is split across two chunks; a
\* 2500-character text of lines of 50, 100 or 125 characters gives 3 chunks
\* under the limit 1000
C14_ChunksWithinLimit ==
    chunkOut # None =>
        ChunkedWithin(chunkIn[1], chunkOut[1], EffectiveLimit(chunkIn[1].embeddingChunkSize))

\* a text longer than the limit was split into chunks that hold a piece of a
\* line longer than the limit and whole short lines
C14_Witness ==
    /\ chunkOut # None
    /\ chunkIn[1].embeddingChunkSize = 150
    /\ chunkIn[1].lines = <<"a30", "b60", "c250", "a30">>
    /\ Len(chunkOut[1]) = 3
    /\ chunkOut[1][1] = Rep("a", 30) \o <<"\n">> \o Rep("b", 60)
    /\ Len(chunkOut[1][2]) = 150

(***************************************************************************)
(* The specification of createEmbedding's result as a function of the      *)
(* provider's answers: Init draws the vectors the provider returned for    *)
(* the chunks of a text, in the order of the chunks, all of the dimension  *)
(* of the provider's model.                                                *)
(***************************************************************************)
\* most chunks of a text
MaxChunks == 3

\* the components of the provider's vectors
ChunkComponents == {-1, 1, MaxComp}

ChunkVectorLists ==
    UNION {[1..k -> [1..d -> ChunkComponents]] : k \in 0..MaxChunks, d \in 1..MaxDim}

AvgInit ==
    /\ EmbedUnused
    /\ extContent = <<>>
    /\ extRegexes = None
    /\ extracted = None
    /\ chunkIn = None
    /\ chunkOut = None
    /\ avgIn \in ChunkVectorLists
    /\ avgOut = None
    /\ ScanUnused
    /\ QueryUnused
    /\ CosUnused
    /\ StoreUnused
    /\ simResp = None
    /\ BatchUnused
    /\ ServerIdle

\* createEmbedding behind its loop, every request having succeeded
CallCreateEmbedding ==
    /\ avgOut = None
    /\ avgOut' = Some(EmbeddingFrom(avgIn))
    /\ UNCHANGED <<embedVars, extContent, extRegexes, extracted, chunkIn, chunkOut, avgIn, scanVars, queryVars, cosVars,
                   storeVars, simVars, batchVars, cacheVars, srvVars>>

AvgNext == CallCreateEmbedding

SpecAvg == AvgInit /\ [][AvgNext]_vars

\* the sum of the components i of the vectors
RECURSIVE ColumnSum(_, _)
ColumnSum(vectors, i) ==
    IF vectors = <<>> THEN 0 ELSE Head(vectors)[i] + ColumnSum(Tail(vectors), i)

Abs(x) == IF x < 0 THEN -x ELSE x

\* C15: for k > 1 chunk vectors createEmbedding returns their element-wise
\* arithmetic mean, component i being the sum of the components i divided by
\* k (the nearest representable value); for exactly one chunk vector it
\* returns that vector unchanged
C15_MeanOfChunkVectors ==
    avgOut # None =>
        LET k == Len(avgIn)
            out == avgOut[1]
        IN  /\ k = 1 => out = avgIn[1]
            /\ k > 1 =>
                /\ Len(out) = Len(avgIn[1])
                /\ \A i \in 1..Len(out) : 2 * Abs(k * out[i] - ColumnSum(avgIn, i)) <= k

\* three different chunk vectors were averaged to a vector that is none of them
C15_Witness ==
    /\ avgOut # None
    /\ avgIn = <<<<MaxComp, 1>>, <<1, 1>>, <<1, -1>>>>
    /\ avgOut[1] = <<(MaxComp + 2) \div 3, 0>>

\* the POST /elements requests whose body has no elementString or an empty one
EmptyPosts == {r \in Posts : requests[r].body.elementString = ""}

\* a request answered with 400 that has called no provider, read no cache
\* entry and drawn no id
Rejected(req) ==
    /\ req.pc = "done"
    /\ req.status = 400
    /\ req.calls = 0
    /\ ~req.hit
    /\ req.embedding = None
    /\ req.id = 0

\* C16: POST /elements with a missing or empty elementString is answered
\* with 400 in the step in which it arrives, a step that leaves the records,
\* the ids and the cache as they were, and the request is in no later step
\* of a handler: no provider request, no cache read or write, no record, no id
C16_EmptyTextRejected ==
    /\ [][\A r \in 1..Len(requests') :
            (r > Len(requests) /\ requests'[r].kind = "postElement"
                               /\ requests'[r].body.elementString = "") =>
                /\ Rejected(requests'[r])
                /\ UNCHANGED <<embedVars, storeVars, cacheVars, nextId>>]_vars
    /\ [](\A r \in EmptyPosts : Rejected(requests[r]))

\* a submission without text was rejected while the store held records and
\* the cache an entry
C16_Witness ==
    /\ \E r \in EmptyPosts : requests[r].status = 400
    /\ elements # <<>>
    /\ \E key \in DOMAIN cache : cache[key] # None

(***************************************************************************)
(* server.ts: the threshold and the limit of GET /similar/all, GET         *)
(* /similar/:id and GET /search.  Init draws req.query; a handler runs up  *)
(* to the call it makes with the threshold and the limit.                  *)
(***************************************************************************)
\* the values of a query parameter: numerals and a word
ThresholdStrings == {"0", "0.5", "1", "abc"}
LimitStrings == {"0", "1", "3", "abc"}

\* parseFloat(x as string): a parameter that is not there is undefined
parseFloat(param) ==
    IF param = None THEN Some(NaN)
    ELSE Some(CASE param[1] = "0" -> 0
                [] param[1] = "0.5" -> Prec \div 2
                [] param[1] = "1" -> Prec
                [] param[1] = "3" -> 3 * Prec
                [] OTHER -> NaN)

\* parseInt(x as string)
parseInt(param) ==
    IF param = None THEN Some(NaN)
    ELSE Some(CASE param[1] = "0" -> 0
                [] param[1] = "0.5" -> 0
                [] param[1] = "1" -> 1
                [] param[1] = "3" -> 3
                [] OTHER -> NaN)

Queries ==
    [q : {None, Some("text")},
     threshold : {None} \cup {Some(x) : x \in ThresholdStrings},
     limit : {None} \cup {Some(x) : x \in LimitStrings}]

QueryInit ==
    /\ EmbedUnused
    /\ PureUnused
    /\ ScanUnused
    /\ reqQuery \in {Some(x) : x \in Queries}
    /\ applied = None
    /\ CosUnused
    /\ StoreUnused
    /\ simResp = None
    /\ BatchUnused
    /\ ServerIdle

\* lines 183-184 and 201-202: the arguments of the call in line 186 or 204
ParseQuery(route) ==
    [route |-> route, status |-> 0,
     threshold |-> Some(ParseOr(parseFloat(reqQuery[1].threshold), DefaultThreshold)),
     limit |-> Some(ParseOr(parseInt(reqQuery[1].limit), DefaultLimit))]

\* GET /similar/all, lines 181-186
GetSimilarAll ==
    /\ applied = None
    /\ applied' = Some(ParseQuery("/similar/all"))
    /\ UNCHANGED <<embedVars, pureVars, scanVars, reqQuery, cosVars, storeVars, simVars, batchVars,
                   cacheVars, srvVars>>

\* GET /similar/:id, lines 199-204
GetSimilarId ==
    /\ applied = None
    /\ applied' = Some(ParseQuery("/similar/:id"))
    /\ UNCHANGED <<embedVars, pureVars, scanVars, reqQuery, cosVars, storeVars, simVars, batchVars,
                   cacheVars, srvVars>>

\* GET /search, lines 219-229: 400 without q
GetSearch ==
    /\ applied = None
    /\ applied' = Some(IF reqQuery[1].q = None
                       THEN [route |-> "/search", status |-> 400,
                             threshold |-> None, limit |-> None]
                       ELSE ParseQuery("/search"))
    /\ UNCHANGED <<embedVars, pureVars, scanVars, reqQuery, cosVars, storeVars, simVars, batchVars,
                   cacheVars, srvVars>>

QueryNext == GetSimilarAll \/ GetSimilarId \/ GetSearch

SpecQuery == QueryInit /\ [][QueryNext]_vars

\* the number a numeral of the query string stands for: a threshold in
\* units of 1/Prec, a limit as a count
ThresholdGiven(x) ==
    CASE x = "0" -> 0 [] x = "0.5" -> Prec \div 2 [] x = "1" -> Prec

LimitGiven(x) ==
    CASE x = "0" -> 0 [] x = "1" -> 1 [] x = "3" -> 3

IsNumeral(x) == x # "abc"

\* C17 as stated: the threshold and the limit a handler applies are the
\* numbers given in the query string whenever they are given as numbers, 0
\* among them, and 0.8 and 10 only when the parameter is not given or is not
\* a number
C17_GivenNumbersApplied ==
    (applied # None /\ applied[1].status # 400) =>
        /\ applied[1].threshold =
            Some(IF reqQuery[1].threshold # None /\ IsNumeral(reqQuery[1].threshold[1])
                 THEN ThresholdGiven(reqQuery[1].threshold[1]) ELSE DefaultThreshold)
        /\ applied[1].limit =
            Some(IF reqQuery[1].limit # None /\ IsNumeral(reqQuery[1].limit[1])
                 THEN LimitGiven(reqQuery[1].limit[1]) ELSE DefaultLimit)

\* GET /similar/all?threshold=0&limit=0 was handled with 0.8 and 10
C17_Witness ==
    /\ applied # None
    /\ applied[1].route = "/similar/all"
    /\ reqQuery[1].threshold = Some("0")
    /\ reqQuery[1].limit = Some("0")
    /\ applied[1].threshold = Some(DefaultThreshold)
    /\ applied[1].limit = Some(DefaultLimit)

(***************************************************************************)
(* git.ts: the scan command, as the only client of the server.  A run is a *)
(* process; a sub-scan is a child the parent waits for (spawnSync), so the *)
(* processes form a stack whose top is the one that runs.  A frame holds   *)
(* options.wipe, the elements extractElements found in the files still to  *)
(* submit, the directories still to sub-scan and the request it awaits.    *)
(* Init draws what the directories hold, the option and the store.         *)
(***************************************************************************)
\* the elements found in the files
ScanElements == {ElementData("h1", "f", 1, "t1"), ElementData("h2", "g", 2, "tLong")}

\* a directory: the elements of its files and its directories with their own
\* dry-scan.toml
Dir(found, subScans) == [elements |-> found, subScans |-> subScans]

LeafDirs == {Dir(found, <<>>) : found \in {<<>>, <<ElementData("h1", "f", 1, "t1")>>}}

SubDirs ==
    LeafDirs \cup {Dir(found, <<leaf>>) :
                    found \in {<<>>, <<ElementData("h2", "g", 2, "tLong")>>},
                    leaf \in LeafDirs}

RootDirs ==
    {Dir(found, subScans) :
        found \in {<<>>, <<ElementData("h1", "f", 1, "t1")>>,
                   <<ElementData("h1", "f", 1, "t1"), ElementData("h2", "g", 2, "tLong")>>},
        subScans \in {<<>>} \cup {<<sub>> : sub \in SubDirs}}

\* a process at the start of the scan action
Frame(dir, wipe) ==
    [wipe |-> wipe, elements |-> dir.elements, subScans |-> dir.subScans,
     pc |-> "start", req |-> 0]

\* a child spawned without --no-wipe
SubScanFrameWipeMutant(dir) == Frame(dir, TRUE)

\* lines 259-270: args = ['scan', subPath, '--no-wipe']
SubScanFrame(dir) == Frame(dir, FALSE)

ScanInit ==
    /\ EmbedUnused
    /\ PureUnused
    /\ QueryUnused
    /\ CosUnused
    /\ simResp = None
    /\ BatchUnused
    /\ cache = [k \in CacheKeys |-> None]
    /\ cacheEpoch = [k \in CacheKeys |-> 0]
    /\ requests = <<>>
    /\ maxActive = 1
    /\ \E prior \in PriorElements :
        /\ elements = [id \in Ids |->
                IF id <= Len(prior)
                THEN Some(HashFields([id |-> id, elementData |-> prior[id],
                                     embedding |-> createEmbedding(prior[id].elementString)]))
                ELSE None]
        /\ elementsIds = 1..Len(prior)
        /\ nextId = Len(prior)
    /\ \E dir \in RootDirs, wipe \in BOOLEAN :
        scan = Some([stack |-> <<Frame(dir, wipe)>>, exit |-> None,
                     wipe |-> wipe, dir |-> dir])

Top == scan[1].stack[Len(scan[1].stack)]

ScanAt(pc) == scan # None /\ scan[1].stack # <<>> /\ Top.pc = pc

SetTop(frame) == scan' = Some([scan[1] EXCEPT !.stack[Len(scan[1].stack)] = frame])

\* process.exit(code) in the process and, through lines 271-274, in every
\* parent
ExitAll(code) == scan' = Some([scan[1] EXCEPT !.stack = <<>>, !.exit = Some(code)])

\* lines 100-176: an error before the first request was answered (the
\* configuration, the path, a server that cannot be reached), line 276
ScanFails ==
    /\ ScanAt("start")
    /\ ExitAll(1)
    /\ UNCHANGED <<embedVars, pureVars, queryVars, cosVars, storeVars, simVars, batchVars, cacheVars, srvVars>>

\* lines 174-177: client.wipeAllElements() sends DELETE /elements
ScanWipe ==
    /\ ScanAt("start")
    /\ Top.wipe
    /\ CanReceive
    /\ requests' = Append(requests,
            [NewRequest("deleteElements", None, None) EXCEPT !.pc = "smembers"])
    /\ SetTop([Top EXCEPT !.pc = "wiping", !.req = Len(requests) + 1])
    /\ UNCHANGED <<embedVars, pureVars, queryVars, cosVars, storeVars, simVars, batchVars, cacheVars,
                   nextId, maxActive>>

\* lines 176-177 and client.ts 44-50: the answer to the wipe
ScanWiped ==
    /\ ScanAt("wiping")
    /\ requests[Top.req].pc = "done"
    /\ IF requests[Top.req].status = 200
       THEN SetTop([Top EXCEPT !.pc = "files", !.req = 0])
       ELSE ExitAll(1)
    /\ UNCHANGED <<embedVars, pureVars, queryVars, cosVars, storeVars, simVars, batchVars, cacheVars, srvVars>>

\* lines 178-180: options.wipe is false
ScanSkipWipe ==
    /\ ScanAt("start")
    /\ ~Top.wipe
    /\ SetTop([Top EXCEPT !.pc = "files"])
    /\ UNCHANGED <<embedVars, pureVars, queryVars, cosVars, storeVars, simVars, batchVars, cacheVars, srvVars>>

\* lines 236-239: client.submitElement(element) sends POST /elements
ScanSubmit ==
    /\ ScanAt("files")
    /\ Top.elements # <<>>
    /\ CanReceive
    /\ IdLeft
    /\ requests' = Append(requests, PostElementRequest(Head(Top.elements)))
    /\ SetTop([Top EXCEPT !.pc = "awaiting", !.req = Len(requests) + 1])
    /\ UNCHANGED <<embedVars, pureVars, queryVars, cosVars, storeVars, simVars, batchVars, cacheVars,
                   nextId, maxActive>>

\* lines 239-246: the element is indexed or the error is swallowed
ScanSubmitted ==
    /\ ScanAt("awaiting")
    /\ requests[Top.req].pc = "done"
    /\ SetTop([Top EXCEPT !.pc = "files", !.req = 0, !.elements = Tail(Top.elements)])
    /\ UNCHANGED <<embedVars, pureVars, queryVars, cosVars, storeVars, simVars, batchVars, cacheVars, srvVars>>

\* lines 254-270: the next sub-scan is spawned and awaited
ScanSpawn ==
    /\ ScanAt("files")
    /\ Top.elements = <<>>
    /\ Top.subScans # <<>>
    /\ scan' = Some([scan[1] EXCEPT !.stack =
            Append([scan[1].stack EXCEPT ![Len(scan[1].stack)] =
                        [Top EXCEPT !.subScans = Tail(Top.subScans)]],
                   SubScanFrame(Head(Top.subScans)))])
    /\ UNCHANGED <<embedVars, pureVars, queryVars, cosVars, storeVars, simVars, batchVars, cacheVars, srvVars>>

\* the action returns: the process ends with status 0, its parent goes on
ScanExit ==
    /\ ScanAt("files")
    /\ Top.elements = <<>>
    /\ Top.subScans = <<>>
    /\ scan' = Some([scan[1] EXCEPT
            !.stack = SubSeq(scan[1].stack, 1, Len(scan[1].stack) - 1),
            !.exit = IF Len(scan[1].stack) = 1 THEN Some(0) ELSE None])
    /\ UNCHANGED <<embedVars, pureVars, queryVars, cosVars, storeVars, simVars, batchVars, cacheVars, srvVars>>

ScanNext ==
    \/ ScanFails
    \/ ScanWipe
    \/ ScanWiped
    \/ ScanSkipWipe
    \/ ScanSubmit
    \/ ScanSubmitted
    \/ ScanSpawn
    \/ ScanExit
    \/ CacheGetReply
    \/ ProviderReply
    \/ CacheSetReply
    \/ HsetReply
    \/ SaddReply
    \/ DeleteSmembers
    \/ DeletePipeline
    \/ CacheExpire

SpecScan == ScanInit /\ [][ScanNext]_vars

\* the submissions the server answered with 200
Indexed == {p \in Posts : Succeeded(p)}

\* the index holds exactly the elements submitted successfully: one record
\* for each of them, under the id the answer gave, and no other record
IndexIsThisRun ==
    /\ elementsIds = {requests[p].id : p \in Indexed}
    /\ Cardinality(elementsIds) = Cardinality(Indexed)
    /\ \A p \in Indexed :
        /\ getEmbedding(elements, requests[p].id) # None
        /\ getEmbedding(elements, requests[p].id)[1].elementData = requests[p].body
    /\ \A ids \in Orders(elementsIds) :
        Len(getAllEmbeddings(ids, elements)) = Cardinality(Indexed)

\* C18: in a scan run without --no-wipe every element is submitted after the
\* wipe was answered, there is one wipe at most in the run, sub-scans
\* included, and when the run ends after its wipe the index holds exactly
\* the elements submitted successfully during the run
C18_WipeOnceBeforeSubmissions ==
    (scan # None /\ scan[1].wipe) =>
        /\ Cardinality(Deletes) <= 1
        /\ \A p \in Posts : \E d \in Deletes : d \in requests[p].after /\ Succeeded(d)
        /\ (scan[1].exit # None /\ \E d \in Deletes : Succeeded(d)) => IndexIsThisRun

\* a run without --no-wipe on a store of two records ended: it wiped the two
\* records, and its sub-scan submitted an element that is now the index
C18_Witness ==
    /\ scan # None
    /\ scan[1].wipe
    /\ scan[1].exit = Some(0)
    /\ scan[1].dir = Dir(<<>>, <<Dir(<<ElementData("h1", "f", 1, "t1")>>, <<>>)>>)
    /\ \E d \in Deletes : Succeeded(d) /\ requests[d].response.deletedCount = 2
    /\ Cardinality(Indexed) = 1
    /\ Cardinality(elementsIds) = 1

\* the workers of the call whose createEmbedding has not returned
EmbedCalls(pool) ==
    {w \in 1..Len(pool.workers) : pool.workers[w].pc \in {"await", "resume"}}

\* the workers that await the provider's answer to a request
ProviderRequests(pool) ==
    {w \in 1..Len(pool.workers) : pool.workers[w].pc = "await"}

\* C19: during one createEmbeddings call at most 5 createEmbedding calls,
\* and so at most 5 provider requests, are in flight, however many texts
C19_AtMostFiveInFlight ==
    batch # None =>
        /\ Cardinality(EmbedCalls(batch[1])) <= 5
        /\ Cardinality(ProviderRequests(batch[1])) <= 5
        /\ ProviderRequests(batch[1]) \subseteq EmbedCalls(batch[1])

\* more texts than workers: five requests are in flight after an embedding
\* has arrived
C19_Witness ==
    /\ batch # None
    /\ Len(batchTexts) > 5
    /\ batch[1].completed # <<>>
    /\ Cardinality(ProviderRequests(batch[1])) = 5

\* no text is waiting and no createEmbedding of the call is running
AllAnswered(pool) == pool.queue = <<>> /\ EmbedCalls(pool) = {}

AnyFailed(pool) == \E w \in 1..Len(pool.workers) : pool.workers[w].pc = "failed"

\* every index was embedded exactly once and every slot holds a vector
EachIndexOnce(pool) ==
    /\ Len(pool.completed) = Len(batchTexts)
    /\ \A i \in 1..Len(batchTexts) :
        Cardinality({k \in 1..Len(pool.completed) : pool.completed[k] = i}) = 1
    /\ Len(pool.results) = Len(batchTexts)
    /\ \A i \in 1..Len(batchTexts) : pool.results[i] # None

\* C20 as stated: the call ends, with its list or with an error, only when
\* the provider has answered every request
C20_EndsOnlyWhenAllAnswered ==
    (batch # None /\ batch[1].settled # "pending") => AllAnswered(batch[1])

\* C20: the call returns its list exactly when every request has been
\* answered and none has failed, every index then being embedded exactly
\* once and every slot holding a vector; it fails as soon as one request has
\* failed; no index is ever taken twice; for no text it returns the empty
\* list at once
C20_ResolvesWhenAllAnswered ==
    batch # None =>
        LET pool == batch[1]
        IN  /\ pool.settled = "resolved" <=> (AllAnswered(pool) /\ ~AnyFailed(pool))
            /\ pool.settled = "rejected" <=> AnyFailed(pool)
            /\ pool.settled = "resolved" => EachIndexOnce(pool)
            /\ \A i \in 1..Len(batchTexts) :
                Cardinality({k \in 1..Len(pool.completed) : pool.completed[k] = i})
                  + Cardinality({w \in EmbedCalls(pool) : pool.workers[w].index = i})
                  + Cardinality({k \in 1..Len(pool.queue) : pool.queue[k].index = i}) <= 1
            /\ batchTexts = <<>> => (pool.settled = "resolved" /\ pool.results = <<>>)

\* a call with more texts than workers returned, the embeddings having
\* arrived in another order than that of the texts
C20_Witness ==
    /\ batch # None
    /\ Len(batchTexts) > 5
    /\ batch[1].settled = "resolved"
    /\ batch[1].completed[1] # 1

\* the POST /elements/batch requests
PostBatches == {r \in 1..Len(requests) : requests[r].kind = "postBatch"}

\* C21: once the embedding of a cache-miss element of a POST /elements/batch
\* has failed, the request stores and caches nothing: it waits for
\* createEmbeddings or is answered with 500, no record exists, the id-set is
\* empty and the cache is as the request found it, also while the other
\* workers of the call go on
C21_BatchFailsWhole ==
    \A r \in PostBatches :
        (batch # None /\ AnyFailed(batch[1])) =>
            /\ requests[r].pc \in {"embed", "done"}
            /\ requests[r].pc = "done" =>
                /\ requests[r].status = 500
                /\ "error" \in DOMAIN requests[r].response
            /\ \A id \in Ids : elements[id] = None
            /\ elementsIds = {}
            /\ cache = requests[r].seen[1]
            /\ nextId = 0

\* a batch of a cache hit and two misses was answered with 500 after the
\* embedding of one miss had arrived and the other had failed
C21_Witness ==
    \E r \in PostBatches :
        /\ requests[r].pc = "done"
        /\ requests[r].status = 500
        /\ Len(requests[r].body.items) = 3
        /\ Len(requests[r].indicesToFetch) = 2
        /\ batch[1].completed # <<>>
        /\ AnyFailed(batch[1])
        /\ \E k \in CacheKeys : cache[k] # None

(***************************************************************************)
(* extractElements with several include regexes and with exclude regexes,  *)
(* compiled with or without the global flag, on contents of signatures,    *)
(* braces, empty bodies and semicolons.                                    *)
(***************************************************************************)
PatternTokens == {<<"f">>, <<"f", "g">>, <<"{">>, <<"}">>, <<"{", "}">>, <<";">>}

PatternContents == {Flatten(pieces) : pieces \in SeqsUpTo(PatternTokens, MaxTokens)}

\* the regexes of a run: the include regexes f and fg in either order; no
\* exclude regex, or the regex g as the tests compile it and as the scan
\* action compiles it (git.ts 217-222, with 'g')
PatternRegexes ==
    [include : {<<<<"f">>, <<"f", "g">>>>, <<<<"f", "g">>, <<"f">>>>},
     exclude : {<<>>, <<[source |-> <<"g">>, global |-> FALSE]>>,
                <<[source |-> <<"g">>, global |-> TRUE]>>}]

PatternInit ==
    /\ EmbedUnused
    /\ extContent \in PatternContents
    /\ extRegexes \in {Some(regexes) : regexes \in PatternRegexes}
    /\ extracted = None
    /\ chunkIn = None
    /\ chunkOut = None
    /\ avgIn = <<>>
    /\ avgOut = None
    /\ ScanUnused
    /\ QueryUnused
    /\ CosUnused
    /\ StoreUnused
    /\ simResp = None
    /\ BatchUnused
    /\ ServerIdle

SpecExtractPatterns == PatternInit /\ [][ExtractNext]_vars

\* the signature of the match that emitted the element
SignatureOf(el) == extRegexes[1].include[el.regex]

\* the first of the characters {, ; and } from index i on, or -1
FirstMark(content, i) ==
    LET marks == {k \in i..(Len(content) - 1) : CharAt(content, k) \in {"{", ";", "}"}}
    IN  IF marks = {} THEN -1 ELSE CHOOSE k \in marks : \A j \in marks : k <= j

\* C22 as stated: no element is emitted for a match behind whose signature
\* a ; or a } comes before any {, at whatever index behind the signature
C22_DeclarationOnlyDiscarded ==
    extracted # None =>
        \A e \in 1..Len(extracted[1]) :
            LET el == extracted[1][e]
                mark == FirstMark(extContent, el.startIndex + Len(SignatureOf(el)))
            IN  mark # -1 /\ CharAt(extContent, mark) = "{"

\* the content f}{} gave an element: the } directly behind the signature
\* was passed over
C22_Witness ==
    /\ extContent = <<"f", "}", "{", "}">>
    /\ extracted # None
    /\ Len(extracted[1]) = 1
    /\ extracted[1][1].elementString = <<"f", "}", "{", "}">>

\* the string holds the literal somewhere
Holds(str, literal) ==
    \E k \in 0..(Len(str) - Len(literal)) : Substring(str, k, k + Len(literal)) = literal

\* C23 as stated: no emitted element has a signature that matches an
\* exclude pattern, with or without the global flag, however many matches
\* the file has
C23_NoExcludedSignature ==
    extracted # None =>
        \A e \in 1..Len(extracted[1]), x \in 1..Len(extRegexes[1].exclude) :
            ~Holds(SignatureOf(extracted[1][e]), extRegexes[1].exclude[x].source)

\* with the exclude regex g compiled with the global flag, the second of
\* two matches of fg was emitted
C23_Witness ==
    /\ extContent = <<"f", "g", "{", "}", "f", "g", "{", "}">>
    /\ extRegexes[1].exclude = <<[source |-> <<"g">>, global |-> TRUE]>>
    /\ extracted # None
    /\ \E e \in 1..Len(extracted[1]) :
        /\ extracted[1][e].startIndex = 4
        /\ SignatureOf(extracted[1][e]) = <<"f", "g">>

\* the include regex r matches at the index p
MatchesAt(r, p) ==
    /\ p + Len(extRegexes[1].include[r]) <= Len(extContent)
    /\ Substring(extContent, p, p + Len(extRegexes[1].include[r])) = extRegexes[1].include[r]

\* the match of the include regex r at the index p gives no element: its
\* signature matches an exclude pattern, or no balanced body follows it
Discarded(r, p) ==
    LET sig == extRegexes[1].include[r]
        start == FindBodyStart(extContent, p + Len(sig), p + Len(sig))
    IN  \/ \E x \in 1..Len(extRegexes[1].exclude) : Holds(sig, extRegexes[1].exclude[x].source)
        \/ start = -1
        \/ FindBodyEnd(extContent, start, 0) = -1

\* no two emitted elements start at the same offset
DistinctOffsets ==
    \A e1, e2 \in 1..Len(extracted[1]) :
        e1 # e2 => extracted[1][e1].startIndex # extracted[1][e2].startIndex

\* C24 as stated: no two elements start at the same offset, and the element
\* at an offset comes from the first include pattern that matches there
C24_FirstMatchingPatternClaims ==
    extracted # None =>
        /\ DistinctOffsets
        /\ \A e \in 1..Len(extracted[1]) :
            \A r \in 1..(extracted[1][e].regex - 1) :
                ~MatchesAt(r, extracted[1][e].startIndex)

\* C24: no two elements start at the same offset; the element at an offset
\* comes from the first include pattern whose match there gives an element:
\* the match of every earlier pattern at that offset was discarded
C24_FirstEmittingPatternClaims ==
    extracted # None =>
        /\ DistinctOffsets
        /\ \A e \in 1..Len(extracted[1]) :
            \A r \in 1..(extracted[1][e].regex - 1) :
                MatchesAt(r, extracted[1][e].startIndex) =>
                    Discarded(r, extracted[1][e].startIndex)

\* f and fg both match at offset 0 and both have a body: the element is the
\* one of f, the first pattern, and fg gave none
C24_Witness ==
    /\ extContent = <<"f", "g", "{", "}">>
    /\ extRegexes[1].include = <<<<"f">>, <<"f", "g">>>>
    /\ extRegexes[1].exclude = <<>>
    /\ extracted # None
    /\ Len(extracted[1]) = 1
    /\ extracted[1][1].regex = 1
    /\ ~Discarded(2, 0)

\* C25: no chunk that splitIntoChunks returns for the provider is empty or
\* consists only of whitespace, for every text and every chunk limit
C25_NoBlankChunk ==
    chunkOut # None =>
        \A i \in 1..Len(chunkOut[1]) : Trim(chunkOut[1][i]) # <<>>

\* a text of 40 spaces, shorter than the limit, was returned as its own
\* single chunk
C25_Witness ==
    /\ chunkOut # None
    /\ chunkIn[1].lines = <<"blank40">>
    /\ chunkIn[1].embeddingChunkSize = 100
    /\ chunkOut[1] = <<Rep(" ", 40)>>

(***************************************************************************)
(* The server with clients that do not wait for each other: Init draws    *)
(* the requests that are at work at the same time, each about to send its *)
(* first command to the store (a POST /elements has its embedding and its *)
(* id), and the steps of storeEmbedding, deleteAllEmbeddings and           *)
(* getAllEmbeddings interleave at their awaits.                            *)
(***************************************************************************)
\* a handler that has come to its first command to the store
AtStore(kind, body, id, tracked) ==
    [kind |-> kind, body |-> body,
     query |-> IF kind = "similarAll" THEN [threshold |-> None, limit |-> None] ELSE None,
     pc |-> IF kind = "postElement" THEN "hset" ELSE "smembers",
     chunks |-> <<>>, embeddings |-> <<>>,
     embedding |-> IF kind = "postElement"
                   THEN Some(createEmbedding(body.elementString)) ELSE None,
     id |-> id, ids |-> <<>>, status |-> 0, response |-> None,
     calls |-> 0, hit |-> FALSE, epoch |-> 0, after |-> {},
     tracked |-> tracked, records |-> <<>>]

\* what the requests at work ask for: to store an element, to delete all
\* records, to read all records
Asks == {"postElement", "deleteElements", "similarAll"}

\* the elements the clients submit, in turn: a one-chunk element and a
\* two-chunk element
Submitted(k) ==
    IF k % 2 = 1 THEN ElementData("h1", "f", 1, "t1") ELSE ElementData("h2", "g", 2, "tLong")

\* the number of POST /elements among the first k of asks
PostsUpTo(asks, k) == Cardinality({j \in 1..k : asks[j] = "postElement"})

ConcurrentInit ==
    /\ EmbedUnused
    /\ PureUnused
    /\ ScanUnused
    /\ QueryUnused
    /\ CosUnused
    /\ simResp = None
    /\ BatchUnused
    /\ cache = [k \in CacheKeys |-> None]
    /\ cacheEpoch = [k \in CacheKeys |-> 0]
    /\ maxActive = MaxRequests
    /\ \E prior \in PriorElements, n \in 1..MaxRequests :
        \E asks \in [1..n -> Asks] :
            /\ Len(prior) + PostsUpTo(asks, n) <= MaxIds
            /\ elements = [id \in Ids |->
                    IF id <= Len(prior)
                    THEN Some(HashFields([id |-> id, elementData |-> prior[id],
                                         embedding |-> createEmbedding(prior[id].elementString)]))
                    ELSE None]
            /\ elementsIds = 1..Len(prior)
            /\ nextId = Len(prior) + PostsUpTo(asks, n)
            /\ requests = [k \in 1..n |->
                    IF asks[k] = "postElement"
                    THEN AtStore(asks[k], Submitted(PostsUpTo(asks, k)),
                                 Len(prior) + PostsUpTo(asks, k), 1..Len(prior))
                    ELSE AtStore(asks[k], None, 0, 1..Len(prior))]

ConcurrentNext ==
    \/ HsetReply
    \/ SaddReply
    \/ DeleteSmembers
    \/ DeletePipeline
    \/ GetAllSmembers
    \/ GetAllPipeline

SpecConcurrent == ConcurrentInit /\ [][ConcurrentNext]_vars

\* the POST /elements that wrote the record of id, if one did
WriterOf(id) == {p \in Posts : requests[p].id = id /\ requests[p].pc \in {"sadd", "done"}}

\* what was stored under id: ids are drawn once, so a record is written by
\* at most one request; the other records are those the server started with
StoredUnder(id) ==
    IF WriterOf(id) # {}
    THEN LET p == CHOOSE p \in WriterOf(id) : TRUE
         IN  [id |-> id, elementData |-> requests[p].body,
              embedding |-> requests[p].embedding[1]]
    ELSE LET prior == CHOOSE prior \in PriorElements : Len(prior) >= id
         IN  [id |-> id, elementData |-> prior[id],
              embedding |-> createEmbedding(prior[id].elementString)]

\* the ids of a list of ids or of records
IdsRead(ids) == {ids[k] : k \in 1..Len(ids)}
IdsOf(records) == {records[k].id : k \in 1..Len(records)}

\* C26, the fetch: the step in which getAllEmbeddings fetches the records
\* returns a record for exactly the ids it read whose record exists at that
\* time; an id whose record is deleted by then is skipped
C26_FetchSkipsDeleted ==
    [][\A g \in SimilarAlls :
          (requests[g].pc = "hgetall" /\ requests'[g].pc = "done") =>
              IdsOf(requests'[g].records)
                  = {id \in IdsRead(requests[g].ids) : elements[id] # None}]_vars

\* C26, the records: getAllEmbeddings does not fail, and each record it
\* returned carries the element data and the embedding stored under its id,
\* once per id
C26_RecordsWhole ==
    \A g \in SimilarAlls :
        Done(g) =>
            /\ requests[g].status = 200
            /\ \A k \in 1..Len(requests[g].records) :
                /\ requests[g].records[k] = StoredUnder(requests[g].records[k].id)
                /\ \A j \in 1..Len(requests[g].records) :
                    requests[g].records[j].id = requests[g].records[k].id => j = k

\* C26: getAllEmbeddings at work at the same time as deleteAllEmbeddings
\* never fails and returns no partial record: an id it read whose record is
\* deleted when it is fetched is skipped, and every returned record carries
\* the element data and the embedding stored under its id
C26_GetAllSkipsDeleted == C26_FetchSkipsDeleted /\ []C26_RecordsWhole

\* a GET /similar/all read three ids while a DELETE /elements was at work
\* that had read two of them; the wipe ran before the fetch, which returned
\* the one record left
C26_Witness ==
    \E g \in SimilarAlls, d \in Deletes :
        /\ Done(g) /\ Done(d)
        /\ requests[d].response.deletedCount = 2
        /\ Len(requests[g].ids) = 3
        /\ Len(requests[g].records) = 1
        /\ requests[g].records[1] = StoredUnder(3)

(***************************************************************************)
(* embedding.ts: createEmbedding against a provider that answers in every *)
(* way it can.  Init draws the text and the configured chunk size and     *)
(* sends the request for the first chunk; each step is the answer to the  *)
(* request in flight.  In the call, `sent` counts the requests sent and    *)
(* `replies` lists the answers received.                                   *)
(***************************************************************************)
\* the value of a property that an object does not have
Undefined == "undefined"

\* what fetch and the provider do with a request: an answer 200 whose
\* data[0] holds an embedding; no answer within 30 s; a status that is not
\* 2xx; a body that is not JSON; JSON without a non-empty array `data`;
\* JSON whose data[0] has no property `embedding`
ProviderReplies == {"ok", "timeout", "status", "notJson", "noData", "noEmbedding"}

\* lines 26-50: the error thrown on a reply, None if none is thrown
ReplyError(reply) ==
    CASE reply = "timeout" -> Some("AbortError")
      [] reply = "status" -> Some("Embedding API error")
      [] reply = "notJson" -> Some("SyntaxError")
      [] reply = "noData" -> Some("Invalid response format from embedding API")
      [] OTHER -> None

\* line 52: data.data[0].embedding
ReplyEmbedding(reply, chunk) ==
    IF reply = "ok" THEN ProviderEmbedding(chunk) ELSE Undefined

\* lines 57-61: the only embedding as it is, or averageEmbeddings, which
\* reads embeddings[0].length and every embedding[i] below that length
EmbedReturn(call) ==
    LET embeddings == call.embeddings
    IN  IF Len(embeddings) = 1
        THEN [call EXCEPT !.pc = "returned", !.result = Some(embeddings[1])]
        ELSE IF Len(embeddings) = 0
        THEN [call EXCEPT !.pc = "returned", !.result = Some(<<>>)]
        ELSE IF \/ embeddings[1] = Undefined
                \/ /\ Len(embeddings[1]) > 0
                   /\ \E k \in 2..Len(embeddings) : embeddings[k] = Undefined
        THEN [call EXCEPT !.pc = "thrown", !.error = Some("TypeError")]
        ELSE [call EXCEPT !.pc = "returned", !.result = Some(averageEmbeddings(embeddings))]

\* lines 18-26: the chunks, then the request for the first of them
EmbedCall(text, size) ==
    LET chunks == splitIntoChunksAt(Content(text), size)
        call == [text |-> text, embeddingChunkSize |-> size, chunks |-> chunks,
                 embeddings |-> <<>>, pc |-> "await", result |-> None, error |-> None,
                 sent |-> 1, replies |-> <<>>]
    IN  IF chunks = <<>> THEN EmbedReturn([call EXCEPT !.sent = 0]) ELSE call

\* lines 40-55 on a reply, then the next turn of the loop or lines 57-61
AfterReply(call, reply) ==
    LET heard == [call EXCEPT !.replies = Append(@, reply)]
    IN  IF ReplyError(reply) # None
        THEN [heard EXCEPT !.pc = "thrown", !.error = ReplyError(reply)]
        ELSE LET pushed == [heard EXCEPT
                    !.embeddings = Append(@, ReplyEmbedding(reply, Head(call.chunks))),
                    !.chunks = Tail(@)]
             IN  IF pushed.chunks # <<>>
                 THEN [pushed EXCEPT !.sent = @ + 1]
                 ELSE EmbedReturn(pushed)

EmbedInit ==
    /\ PureUnused
    /\ ScanUnused
    /\ QueryUnused
    /\ CosUnused
    /\ StoreUnused
    /\ simResp = None
    /\ BatchUnused
    /\ ServerIdle
    /\ \E text \in TextNames, size \in ChunkSizes : embed = Some(EmbedCall(text, size))

\* fetch settles (lines 26-55)
EmbedReply ==
    /\ embed # None
    /\ embed[1].pc = "await"
    /\ \E reply \in ProviderReplies : embed' = Some(AfterReply(embed[1], reply))
    /\ UNCHANGED <<pureVars, scanVars, queryVars, cosVars, storeVars, simVars, batchVars,
                   cacheVars, srvVars>>

EmbedNext == EmbedReply

SpecEmbed == EmbedInit /\ [][EmbedNext]_vars

\* the replies that are no well-formed answer 200
FailedReplies == ProviderReplies \ {"ok"}

\* C27: when a chunk request of a createEmbedding call has failed, by
\* timeout, by a status that is not 2xx or by a malformed response, the call
\* has failed: no later chunk has been requested and no vector is returned
C27_FailedChunkFailsCall ==
    embed # None =>
        \A k \in 1..Len(embed[1].replies) :
            embed[1].replies[k] \in FailedReplies =>
                /\ embed[1].pc = "thrown"
                /\ embed[1].sent = k
                /\ embed[1].result = None

\* the request for the second chunk of a text timed out after the first
\* chunk was embedded: the call threw and returned nothing
C27_Witness ==
    /\ embed # None
    /\ embed[1].text = "tLong"
    /\ embed[1].replies = <<"ok", "timeout">>
    /\ Len(embed[1].embeddings) = 1
    /\ embed[1].pc = "thrown"
    /\ embed[1].sent = 2
    /\ embed[1].result = None

\* every request has been answered
AllDone == \A r \in 1..Len(requests) : Done(r)

\* the ids whose record exists
RecordIds == {id \in Ids : elements[id] # None}

\* C28: once storeEmbedding calls and deleteAllEmbeddings calls that ran at
\* the same time are all over, an id is in elements:ids if and only if its
\* record exists
C28_IdSetMatchesRecords ==
    (AllDone /\ Posts # {} /\ Deletes # {}) => elementsIds = RecordIds

\* a DELETE /elements read the two tracked ids, a POST /elements stored a
\* third record and tracked it, then the wipe deleted the two records and
\* the id-set: the third record is left and no id is tracked
C28_Witness ==
    /\ AllDone
    /\ \E d \in Deletes, p \in Posts :
        /\ requests[d].response.deletedCount = 2
        /\ Succeeded(p)
        /\ requests[p].id = 3
    /\ RecordIds = {3}
    /\ elementsIds = {}

\* the pairs that the GET /similar/all request g answered
PairsOf(g) == requests[g].response.pairs

\* C29: after any sequence of submissions and wipes, no pair that
\* findMostSimilarPairs returns has the same element data (file path, line
\* number, element name and text) as element1 and as element2
C29_NoPairOfIdenticalData ==
    \A g \in SimilarAlls :
        Done(g) =>
            \A k \in 1..Len(PairsOf(g)) : PairsOf(g)[k].element1 # PairsOf(g)[k].element2

\* one element was submitted twice on an empty store and stored under two
\* ids; GET /similar/all answered the pair of the two records
C29_Witness ==
    \E p1, p2 \in Posts, g \in SimilarAlls :
        /\ p1 < p2 /\ p2 < g
        /\ requests[p1].tracked = {}
        /\ Succeeded(p1) /\ Succeeded(p2) /\ Done(g)
        /\ requests[p1].body = requests[p2].body
        /\ Len(PairsOf(g)) = 1
        /\ PairsOf(g)[1].id1 # PairsOf(g)[1].id2
        /\ {PairsOf(g)[1].id1, PairsOf(g)[1].id2} = {requests[p1].id, requests[p2].id}
        /\ PairsOf(g)[1].element1 = requests[p1].body
        /\ PairsOf(g)[1].element2 = requests[p1].body

\* the characters of str that are not white space, in their order
NonSpace(str) == SelectSeq(str, LAMBDA c : ~IsSpace(c))

\* the chunks one behind the other
RECURSIVE Concat(_)
Concat(chunks) == IF chunks = <<>> THEN <<>> ELSE Head(chunks) \o Concat(Tail(chunks))

\* the number of white-space characters of text from index pos on, up to the
\* next character that is none
SpaceRun(text, pos) ==
    LET solid == {i \in pos..Len(text) : ~IsSpace(text[i])}
    IN  IF solid = {} THEN Len(text) + 1 - pos
        ELSE (CHOOSE i \in solid : \A j \in solid : i <= j) - pos

\* from index pos on, text is the chunks from the k-th on, in their order,
\* with nothing but white space before, between and behind them
RECURSIVE CutsFrom(_, _, _, _)
CutsFrom(text, pos, chunks, k) ==
    IF k > Len(chunks) THEN SpaceRun(text, pos) = Len(text) + 1 - pos
    ELSE \E skip \in 0..SpaceRun(text, pos) :
            /\ pos + skip + Len(chunks[k]) <= Len(text) + 1
            /\ SubSeq(text, pos + skip, pos + skip + Len(chunks[k]) - 1) = chunks[k]
            /\ CutsFrom(text, pos + skip + Len(chunks[k]), chunks, k + 1)

\* C30: for every text and chunk limit, the characters of the text that are
\* not white space are the characters of the chunks that are not white
\* space, once each and in the same order; the chunks are pieces of the
\* text in its order, and what lies between them is white space
C30_ChunksKeepContent ==
    chunkOut # None =>
        LET text == JoinLines(chunkIn[1].lines)
        IN  /\ NonSpace(Concat(chunkOut[1])) = NonSpace(text)
            /\ CutsFrom(text, 1, chunkOut[1], 1)

\* a text of a line longer than the limit between short lines and a blank
\* line was cut into five chunks: the line breaks at the cuts and the blank
\* line are gone, every other character is there
C30_Witness ==
    /\ chunkOut # None
    /\ chunkIn[1].embeddingChunkSize = 100
    /\ chunkIn[1].lines = <<"b60", "c250", "blank40", "a30">>
    /\ Len(chunkOut[1]) = 5
    /\ Len(Concat(chunkOut[1])) = Len(JoinLines(chunkIn[1].lines)) - 43
    /\ NonSpace(Concat(chunkOut[1])) = Rep("b", 60) \o Rep("c", 250) \o Rep("a", 30)

====
